---- MODULE Spec2Model ----
(***************************************************************************)
(* Tile cache and loading pipeline of r3f-data-array-texture-lod:          *)
(* SlotAllocator, TileManager, TileDataStore, TileLoaderPool and the       *)
(* per-frame coordinator of App.jsx (TileSystem useFrame, loadImagesAtLod, *)
(* processTiles, rebuildInstances).                                        *)
(*                                                                         *)
(* Conventions of the model                                                *)
(*  - a tile key `${imageIndex}_lod${lodLevel}_${tx}_${ty}` is the tuple   *)
(*    <<imageIndex, lodLevel, tx, ty>>; a store key                        *)
(*    `${imageIndex}_${lodLevel}` is the pair <<imageIndex, lodLevel>>.    *)
(*    Both string formats are injective on non-negative integers.          *)
(*  - a JavaScript Map is a sequence of [key, value] records in insertion  *)
(*    order where the order is observable (TileDataStore.data), and a      *)
(*    function otherwise.                                                  *)
(*  - `undefined` of a numeric Map lookup is NoLod (-1).                   *)
(*  - lengths are in half world units, so that GAP = 0.5 is the integer 1. *)
(***************************************************************************)
EXTENDS Integers, Sequences, FiniteSets, TLC

VARIABLES
    layerSlots,        \* SlotAllocator.layerSlots : layer -> set of used slot indices
    usedSlots,         \* SlotAllocator.usedSlots  : tileKey -> slot
    webglTexture,      \* TRUE once the renderer has created the atlas' __webglTexture
    atlasPixels,       \* the atlas on the GPU : <<layer, slotX, slotY>> -> tile key of the bitmap written last
    data,              \* TileDataStore.data       : ordered map image -> ordered map lod -> instances
    tileKeys,          \* TileDataStore.tileKeys   : <<image, lod>> -> tile key list
    loadingPromises,   \* TileDataStore.loadingPromises : set of <<image, lod>>
    requestedLod,      \* TileDataStore.requestedLod : image -> lod (NoLod when unset)
    queue,             \* TileLoaderPool.queue     : tasks not yet dispatched, highest priority first
    active,            \* TileLoaderPool.active    : task id -> dispatched task
    idleWorkers,       \* TileLoaderPool.idleWorkers : stack of idle worker indices
    idCounter,         \* TileLoaderPool.idCounter
    terminated,        \* TileLoaderPool.workers : TRUE once the workers are terminated
    settled,           \* promise reactions (microtasks) not yet run, in order
    imageLodCache,     \* TileSystem imageLodCacheRef : image -> lod (NoLod when absent)
    visibleImagesRef,  \* TileSystem visibleImagesRef : last visible list
    needsRebuild,      \* TileSystem needsRebuildRef
    renderedSet,       \* TileSystem renderedSetRef : set of <<image, lod>>
    instances,         \* TileManager.instances : the draw list
    last               \* what the last operation did (history, read by the properties only)

vars == <<layerSlots, usedSlots, webglTexture, atlasPixels, data, tileKeys, loadingPromises, requestedLod,
          queue, active, idleWorkers, idCounter, terminated, settled, imageLodCache,
          visibleImagesRef, needsRebuild, renderedSet, instances, last>>

allocVars == <<layerSlots, usedSlots>>
\* the GL side of the TileManager; only the TileManager specification follows it,
\* the other specifications follow the slot side of uploadTile
atlasVars == <<webglTexture, atlasPixels>>
storeVars == <<data, tileKeys, loadingPromises, requestedLod>>
poolVars  == <<queue, active, idleWorkers, idCounter, terminated>>
frameVars == <<imageLodCache, visibleImagesRef, needsRebuild, renderedSet, instances>>

(***************************************************************************)
(* Bounds of the model                                                     *)
(***************************************************************************)
NumImages == 2         \* images 1..NumImages can come into view
MaxLayers == 1         \* SlotAllocator maxLayers
TilesPerRow == 2       \* SlotAllocator tilesPerRow
PoolSize == 2          \* TileLoaderPool poolSize
MaxTasks == 3          \* cap on idCounter
RetryTasks == 5        \* cap on idCounter of the specification with the resting camera
StackedTasks == 3      \* task ids of the stacked layout's specification
NumAllocKeys == 5      \* tile keys of the allocator-only specification
MaxStoreLod == 1       \* highest LOD of the store-only specification
MaxStoreLoading == 1   \* loading marks at a time in the store-only specification
MaxPoolTasks == 4      \* tasks submitted in the pool-only specification
NumAtlasKeys == 3      \* tile keys of the TileManager specification
MaxSelectZoom == 1030  \* highest demanded density of the LOD selection specification, beside 5000
AllocLayers == 2        \* layers of the allocator in the two-layer specification
MaxLodEntries == 3     \* entries set in the getBestAvailableLod specification

(***************************************************************************)
(* Program constants                                                       *)
(***************************************************************************)
TILE_SIZE == 256
BASE_WORLD_SIZE == 4
MAX_LOD == 4
VIEW_WIDTH == 800
VIEW_HEIGHT == 600
LOD_ZOOM_THRESHOLDS == <<0, 80, 160, 320, 640>>
IMAGE_COUNT == 16
IMAGES_PER_STACK == 100
STACKED_POOL_SIZE == 4

NoLod == 0 - 1
Images == 1..NumImages
Zooms == {40, 80, 160}              \* camera.zoom values of the model
CamXs == {9, 18}                    \* camera.position.x values (half units), camera.position.y = 0

Min(a, b) == IF a <= b THEN a ELSE b
RECURSIVE Pow(_, _)
Pow(b, e) == IF e <= 0 THEN 1 ELSE b * Pow(b, e - 1)
CeilDiv(a, b) == (a + b - 1) \div b

RECURSIVE SumSeq(_)
SumSeq(s) == IF s = <<>> THEN 0 ELSE Head(s) + SumSeq(Tail(s))

RECURSIVE SetToSeq(_)
\* the elements of a finite set of integers in ascending order
SetToSeq(S) == IF S = {} THEN <<>>
               ELSE LET m == CHOOSE x \in S : \A y \in S : x <= y
                    IN <<m>> \o SetToSeq(S \ {m})

Range(s) == {s[i] : i \in 1..Len(s)}

(***************************************************************************)
(* SlotAllocator (src/src/SlotAllocator.js)                                *)
(***************************************************************************)
TilesPerLayer == TilesPerRow * TilesPerRow
Layers == 0..(MaxLayers - 1)
NoSlot == [layer |-> NoLod, slotX |-> NoLod, slotY |-> NoLod]     \* null

\* an allocator value: [ls |-> layerSlots, us |-> usedSlots]
EmptyAllocator == [ls |-> [l \in Layers |-> {}], us |-> <<>>]

GetTotalSlots == MaxLayers * TilesPerLayer

RECURSIVE SumLayers(_, _)
SumLayers(ls, l) == IF l \notin DOMAIN ls THEN 0 ELSE Cardinality(ls[l]) + SumLayers(ls, l + 1)

GetUsedCount(a) == SumLayers(a.ls, 0)

AllocHas(a, tileKey) == tileKey \in DOMAIN a.us

\* the mutant takes a layer with one free slot left for a full one
FindFreeSlotFullEarly(a) ==
    LET free == {l \in DOMAIN a.ls : Cardinality(a.ls[l]) < TilesPerLayer - 1}
    IN IF free = {} THEN NoSlot
       ELSE LET layer == CHOOSE l \in free : \A m \in free : l <= m
                i == CHOOSE j \in (0..(TilesPerLayer - 1)) \ a.ls[layer] :
                        \A k \in (0..(TilesPerLayer - 1)) \ a.ls[layer] : j <= k
            IN [layer |-> layer, slotX |-> i % TilesPerRow, slotY |-> i \div TilesPerRow]

\* the mutant takes the highest free index of the layer
FindFreeSlotHighestIndex(a) ==
    LET free == {l \in DOMAIN a.ls : Cardinality(a.ls[l]) < TilesPerLayer}
    IN IF free = {} THEN NoSlot
       ELSE LET layer == CHOOSE l \in free : \A m \in free : l <= m
                i == CHOOSE j \in (0..(TilesPerLayer - 1)) \ a.ls[layer] :
                        \A k \in (0..(TilesPerLayer - 1)) \ a.ls[layer] : j >= k
            IN [layer |-> layer, slotX |-> i % TilesPerRow, slotY |-> i \div TilesPerRow]

FindFreeSlot(a) ==
    LET free == {l \in DOMAIN a.ls : Cardinality(a.ls[l]) < TilesPerLayer}
    IN IF free = {} THEN NoSlot
       ELSE LET layer == CHOOSE l \in free : \A m \in free : l <= m
                i == CHOOSE j \in (0..(TilesPerLayer - 1)) \ a.ls[layer] :
                        \A k \in (0..(TilesPerLayer - 1)) \ a.ls[layer] : j <= k
            IN [layer |-> layer, slotX |-> i % TilesPerRow, slotY |-> i \div TilesPerRow]

SlotIndex(slot) == slot.slotY * TilesPerRow + slot.slotX

MapPut(f, k, v) == [x \in (DOMAIN f) \cup {k} |-> IF x = k THEN v ELSE f[x]]
MapDel(f, k) == [x \in (DOMAIN f) \ {k} |-> f[x]]

\* the mutant records the key but forgets to mark the slot index as used
AllocateNoMark(a, tileKey) ==
    IF tileKey \in DOMAIN a.us THEN [alloc |-> a, slot |-> a.us[tileKey]]
    ELSE LET slot == FindFreeSlot(a)
         IN IF slot = NoSlot THEN [alloc |-> a, slot |-> NoSlot]
            ELSE [alloc |-> [ls |-> a.ls, us |-> MapPut(a.us, tileKey, slot)],
                  slot |-> slot]

\* the mutant takes a new slot even for a key that already holds one
AllocateNoDedup(a, tileKey) ==
    LET slot == FindFreeSlot(a)
    IN IF slot = NoSlot THEN [alloc |-> a, slot |-> NoSlot]
       ELSE [alloc |-> [ls |-> [a.ls EXCEPT ![slot.layer] = @ \cup {SlotIndex(slot)}],
                        us |-> MapPut(a.us, tileKey, slot)],
             slot |-> slot]

\* allocate(tileKey): [alloc |-> the allocator afterwards, slot |-> the result]
Allocate(a, tileKey) ==
    IF tileKey \in DOMAIN a.us THEN [alloc |-> a, slot |-> a.us[tileKey]]
    ELSE LET slot == FindFreeSlot(a)
         IN IF slot = NoSlot THEN [alloc |-> a, slot |-> NoSlot]
            ELSE [alloc |-> [ls |-> [a.ls EXCEPT ![slot.layer] = @ \cup {SlotIndex(slot)}],
                             us |-> MapPut(a.us, tileKey, slot)],
                  slot |-> slot]

\* the mutant forgets the key but leaves the slot index marked
FreeKeepIndex(a, tileKey) ==
    IF tileKey \notin DOMAIN a.us THEN a
    ELSE [ls |-> a.ls, us |-> MapDel(a.us, tileKey)]

Free(a, tileKey) ==
    IF tileKey \notin DOMAIN a.us THEN a
    ELSE LET slot == a.us[tileKey]
         IN [ls |-> [a.ls EXCEPT ![slot.layer] = @ \ {SlotIndex(slot)}],
             us |-> MapDel(a.us, tileKey)]

Alloc == [ls |-> layerSlots, us |-> usedSlots]

(***************************************************************************)
(* tileWorker.js: the tile grid a worker decodes for (image, lod)          *)
(***************************************************************************)
\* pixel sizes of the source images (input data; powers of two, so that the
\* worker's floating point quotients are exact)
ImageWidth(imageIndex) == 4 * TILE_SIZE
ImageHeight(imageIndex) == IF imageIndex % 2 = 1 THEN TILE_SIZE ELSE 2 * TILE_SIZE

\* tilesX = ceil(worldWidth / tileWorldSize) with tileWorldSize = BASE_WORLD_SIZE / 2^lod,
\* worldWidth = BASE_WORLD_SIZE (aspect >= 1) or BASE_WORLD_SIZE * aspect
TilesX(imageIndex, lodLevel) ==
    LET w == ImageWidth(imageIndex)
        h == ImageHeight(imageIndex)
    IN IF w >= h THEN CeilDiv(BASE_WORLD_SIZE * Pow(2, lodLevel), BASE_WORLD_SIZE)
       ELSE CeilDiv(BASE_WORLD_SIZE * w * Pow(2, lodLevel), BASE_WORLD_SIZE * h)

TilesY(imageIndex, lodLevel) ==
    LET w == ImageWidth(imageIndex)
        h == ImageHeight(imageIndex)
    IN IF w >= h THEN CeilDiv(BASE_WORLD_SIZE * h * Pow(2, lodLevel), BASE_WORLD_SIZE * w)
       ELSE CeilDiv(BASE_WORLD_SIZE * Pow(2, lodLevel), BASE_WORLD_SIZE)

\* the `tiles` array of the 'done' message: for ty, for tx
WorkerTiles(imageIndex, lodLevel) ==
    LET tx == TilesX(imageIndex, lodLevel)
        ty == TilesY(imageIndex, lodLevel)
    IN [k \in 1..(tx * ty) |-> <<(k - 1) % tx, (k - 1) \div tx>>]

TileKey(imageIndex, lodLevel, t) == <<imageIndex, lodLevel, t[1], t[2]>>

(***************************************************************************)
(* TileManager (src/src/TileManager.js): slot side of uploadTile/freeTile  *)
(***************************************************************************)
UploadTile(a, tileKey) == Allocate(a, tileKey)
FreeTile(a, tileKey) == Free(a, tileKey)
GetUsedSlotCount(a) == GetUsedCount(a)

\* uploadTile(tileKey, imageBitmap) with its GL side, on a TileManager value
\* [alloc, texture, pixels]: texSubImage3D runs only when __webglTexture exists
UploadTileGl(tm, tileKey) ==
    LET r == UploadTile(tm.alloc, tileKey)
    IN IF r.slot = NoSlot THEN [tm |-> tm, slot |-> NoSlot]
       ELSE [tm |-> [alloc |-> r.alloc, texture |-> tm.texture,
                     pixels |-> IF tm.texture
                                THEN MapPut(tm.pixels,
                                        <<r.slot.layer, r.slot.slotX, r.slot.slotY>>, tileKey)
                                ELSE tm.pixels],
             slot |-> r.slot]

RECURSIVE FreeAll(_, _)
\* for (const tk of keys) tileManager.freeTile(tk)
FreeAll(a, keys) == IF keys = <<>> THEN a ELSE FreeAll(FreeTile(a, Head(keys)), Tail(keys))

(***************************************************************************)
(* processTiles (src/src/App.jsx)                                          *)
(***************************************************************************)
RECURSIVE ProcessLoop(_, _, _, _)
\* acc = [alloc, instances, tileKeyList, complete]
ProcessLoop(imageIndex, lodLevel, tiles, acc) ==
    IF tiles = <<>> THEN acc
    ELSE LET tileKey == TileKey(imageIndex, lodLevel, Head(tiles))
             r == UploadTile(acc.alloc, tileKey)
         IN IF r.slot # NoSlot
            THEN ProcessLoop(imageIndex, lodLevel, Tail(tiles),
                     [alloc |-> r.alloc,
                      instances |-> Append(acc.instances, [slot |-> r.slot, tile |-> tileKey]),
                      tileKeyList |-> Append(acc.tileKeyList, tileKey),
                      complete |-> acc.complete])
            ELSE ProcessLoop(imageIndex, lodLevel, Tail(tiles),
                     [alloc |-> r.alloc, instances |-> acc.instances,
                      tileKeyList |-> acc.tileKeyList, complete |-> FALSE])

ProcessTiles(imageIndex, lodLevel, tiles, a) ==
    ProcessLoop(imageIndex, lodLevel, tiles,
        [alloc |-> a, instances |-> <<>>, tileKeyList |-> <<>>, complete |-> TRUE])

\* processTiles when texSubImage3D (TileManager.js 134-144) raises at tile number
\* failAt: the tiles before it went through the loop, uploadTile has allocated the
\* slot of tile failAt (line 121) and the exception leaves processTiles before
\* tileKeyList is returned.  [alloc, raised]; no GL call, hence no exception, when
\* the tile found no slot
ProcessTilesRaising(imageIndex, lodLevel, tiles, a, failAt) ==
    LET before == ProcessTiles(imageIndex, lodLevel, SubSeq(tiles, 1, failAt - 1), a)
        r == UploadTile(before.alloc, TileKey(imageIndex, lodLevel, tiles[failAt]))
    IN [alloc |-> r.alloc, raised |-> r.slot # NoSlot]

(***************************************************************************)
(* TileDataStore (src/unnamed/part_000)                                    *)
(* a store value: [data, tileKeys, loading, requested]                     *)
(***************************************************************************)
Store == [data |-> data, tileKeys |-> tileKeys,
          loading |-> loadingPromises, requested |-> requestedLod]

EmptyStore == [data |-> <<>>, tileKeys |-> <<>>, loading |-> {},
               requested |-> [i \in Images |-> NoLod]]

GetKey(imageIndex, lodLevel) == <<imageIndex, lodLevel>>

\* position of imageIndex in the data map, 0 when absent
DataIndex(d, imageIndex) ==
    IF \E i \in 1..Len(d) : d[i].img = imageIndex
    THEN CHOOSE i \in 1..Len(d) : d[i].img = imageIndex ELSE 0

LodIndex(lods, lodLevel) ==
    IF \E i \in 1..Len(lods) : lods[i].lod = lodLevel
    THEN CHOOSE i \in 1..Len(lods) : lods[i].lod = lodLevel ELSE 0

Has(st, imageIndex, lodLevel) ==
    LET i == DataIndex(st.data, imageIndex)
    IN i # 0 /\ LodIndex(st.data[i].lods, lodLevel) # 0

\* get(imageIndex, lodLevel): the instances, <<>> standing for undefined as well
Get(st, imageIndex, lodLevel) ==
    LET i == DataIndex(st.data, imageIndex)
    IN IF i = 0 THEN <<>>
       ELSE LET j == LodIndex(st.data[i].lods, lodLevel)
            IN IF j = 0 THEN <<>> ELSE st.data[i].lods[j].inst

\* Map.set: an existing key keeps its position, a new key goes last
LodPut(lods, lodLevel, inst) ==
    LET j == LodIndex(lods, lodLevel)
    IN IF j = 0 THEN Append(lods, [lod |-> lodLevel, inst |-> inst])
       ELSE [lods EXCEPT ![j] = [lod |-> lodLevel, inst |-> inst]]

\* set(imageIndex, lodLevel, instances) without a tileKeyList
StoreSetData(st, imageIndex, lodLevel, inst) ==
    LET d0 == IF DataIndex(st.data, imageIndex) = 0
              THEN Append(st.data, [img |-> imageIndex, lods |-> <<>>]) ELSE st.data
        i == DataIndex(d0, imageIndex)
    IN [st EXCEPT !.data = [d0 EXCEPT ![i].lods = LodPut(@, lodLevel, inst)]]

StoreSet(st, imageIndex, lodLevel, inst, tileKeyList) ==
    [StoreSetData(st, imageIndex, lodLevel, inst)
        EXCEPT !.tileKeys = MapPut(st.tileKeys, <<imageIndex, lodLevel>>, tileKeyList)]

\* the mutant never sees a load in flight
IsLoadingNever(st, imageIndex, lodLevel) == FALSE

IsLoading(st, imageIndex, lodLevel) == GetKey(imageIndex, lodLevel) \in st.loading
SetLoadingPromise(st, imageIndex, lodLevel) ==
    [st EXCEPT !.loading = @ \cup {GetKey(imageIndex, lodLevel)}]
\* the mutant leaves the pair marked as loading
ClearLoadingPromiseKeep(st, imageIndex, lodLevel) == st

ClearLoadingPromise(st, imageIndex, lodLevel) ==
    [st EXCEPT !.loading = @ \ {GetKey(imageIndex, lodLevel)}]

\* the mutant keeps the highest LOD asked for
SetRequestedLodKeepHighest(st, imageIndex, lodLevel) ==
    IF lodLevel > st.requested[imageIndex]
    THEN [st EXCEPT !.requested[imageIndex] = lodLevel] ELSE st

\* setRequestedLod, src/unnamed/part_000 lines 51-53
SetRequestedLod(st, imageIndex, lodLevel) ==
    [st EXCEPT !.requested[imageIndex] = lodLevel]
GetRequestedLod(st, imageIndex) ==
    IF st.requested[imageIndex] = NoLod THEN 0 ELSE st.requested[imageIndex]
\* the mutant treats every completion as still wanted
ShouldPrioritizeAlways(st, imageIndex, lodLevel) == TRUE

ShouldPrioritize(st, imageIndex, lodLevel) == lodLevel >= GetRequestedLod(st, imageIndex)

\* the cached pairs in the enumeration order of the two nested Maps
RECURSIVE FlatData(_)
FlatData(d) ==
    IF d = <<>> THEN <<>>
    ELSE [j \in 1..Len(Head(d).lods) |-> <<Head(d).img, Head(d).lods[j].lod>>]
         \o FlatData(Tail(d))

CachedPairs(st) == Range(FlatData(st.data))

\* the mutant leaves the entry in the data map
DataDeleteKeep(st, imageIndex, lodLevel) == st

\* delete lodLevel of imageIndex; an image left without LODs is dropped from both maps
DataDelete(st, imageIndex, lodLevel) ==
    LET i == DataIndex(st.data, imageIndex)
    IN IF i = 0 THEN st
       ELSE LET lods == SelectSeq(st.data[i].lods, LAMBDA e : e.lod # lodLevel)
            IN IF lods = <<>>
               THEN [st EXCEPT !.data = SelectSeq(st.data, LAMBDA e : e.img # imageIndex),
                               !.tileKeys = [k \in {x \in DOMAIN st.tileKeys : x[1] # imageIndex}
                                              |-> st.tileKeys[k]]]
               ELSE [st EXCEPT !.data[i].lods = lods]

\* the mutant reads the target LOD through getRequestedLod, with its default 0
CandidatePriorityDefault(st, visibleImages, imageIndex, lodLevel) ==
    LET isVisible == imageIndex \in Range(visibleImages)
        isTargetLod == GetRequestedLod(st, imageIndex) = lodLevel
    IN IF ~isVisible THEN (IF isTargetLod THEN 1 ELSE 0) ELSE 2

\* priority of an eviction candidate (lower = evict first)
CandidatePriority(st, visibleImages, imageIndex, lodLevel) ==
    LET isVisible == imageIndex \in Range(visibleImages)
        isTargetLod == st.requested[imageIndex] = lodLevel
    IN IF ~isVisible THEN (IF isTargetLod THEN 1 ELSE 0) ELSE 2

\* the mutant skips only the rendered pairs, not the loading ones
IsCandidateIgnoreLoading(st, renderedKeys, pair) == pair \notin renderedKeys

\* the mutant skips only the loading pairs, not the rendered ones
IsCandidateIgnoreRendered(st, renderedKeys, pair) == pair \notin st.loading

IsCandidate(st, renderedKeys, pair) ==
    pair \notin renderedKeys /\ pair \notin st.loading

Candidates(st, renderedKeys, visibleImages) ==
    LET pairs == SelectSeq(FlatData(st.data), LAMBDA p : IsCandidate(st, renderedKeys, p))
    IN [i \in 1..Len(pairs) |->
          LET hasKeys == pairs[i] \in DOMAIN st.tileKeys
              keys == IF hasKeys THEN st.tileKeys[pairs[i]] ELSE <<>>
          IN [imageIndex |-> pairs[i][1], lodLevel |-> pairs[i][2],
              priority |-> CandidatePriority(st, visibleImages, pairs[i][1], pairs[i][2]),
              tileCount |-> Len(keys), keys |-> keys, hasKeys |-> hasKeys]]

\* the comparator of candidates.sort
ComparePriority(a, b) == a.priority - b.priority

\* Array.prototype.sort is stable: x goes behind every element that does not compare greater
InsertStable(sorted, x) ==
    LET n == Cardinality({i \in 1..Len(sorted) : ComparePriority(sorted[i], x) <= 0})
    IN SubSeq(sorted, 1, n) \o <<x>> \o SubSeq(sorted, n + 1, Len(sorted))

RECURSIVE SortLoop(_, _)
SortLoop(sorted, rest) ==
    IF rest = <<>> THEN sorted ELSE SortLoop(InsertStable(sorted, Head(rest)), Tail(rest))

\* the mutant leaves the candidates in enumeration order
SortCandidatesNoSort(c) == c

SortCandidates(c) == SortLoop(<<>>, c)

\* the mutant never stops at the target
TargetReachedNever(currentFree, targetFreeSlots) == FALSE

TargetReached(currentFree, targetFreeSlots) == currentFree >= targetFreeSlots

\* the mutant drops the entry without freeing its tiles
EvictOneKeepTiles(acc, c) ==
    [st |-> DataDelete(acc.st, c.imageIndex, c.lodLevel),
     alloc |-> acc.alloc,
     currentFree |-> acc.currentFree + c.tileCount,
     evicted |-> Append(acc.evicted, <<c.imageIndex, c.lodLevel>>),
     freeAt |-> Append(acc.freeAt, GetTotalSlots - GetUsedSlotCount(acc.alloc))]

\* one pass of the eviction loop body: free the tiles, drop the entry
EvictOne(acc, c) ==
    LET st1 == IF c.hasKeys
               THEN [acc.st EXCEPT !.tileKeys = MapDel(@, <<c.imageIndex, c.lodLevel>>)]
               ELSE acc.st
    IN [st |-> DataDelete(st1, c.imageIndex, c.lodLevel),
        alloc |-> IF c.hasKeys THEN FreeAll(acc.alloc, c.keys) ELSE acc.alloc,
        currentFree |-> acc.currentFree + c.tileCount,
        evicted |-> Append(acc.evicted, <<c.imageIndex, c.lodLevel>>),
        \* history: the allocator's free count right before this eviction
        freeAt |-> Append(acc.freeAt, GetTotalSlots - GetUsedSlotCount(acc.alloc))]

RECURSIVE EvictLoop(_, _, _)
EvictLoop(acc, cands, targetFreeSlots) ==
    IF cands = <<>> THEN acc
    ELSE IF TargetReached(acc.currentFree, targetFreeSlots) THEN acc
    ELSE EvictLoop(EvictOne(acc, Head(cands)), Tail(cands), targetFreeSlots)

\* evictStale(renderedSet, tileManager, visibleImages, targetFreeSlots):
\* [st, alloc] afterwards, and as history the sorted candidates, the evicted pairs
\* in order and the free count before each eviction
EvictStale(st, a, renderedKeys, visibleImages, targetFreeSlots) ==
    LET cands == SortCandidates(Candidates(st, renderedKeys, visibleImages))
        r == EvictLoop([st |-> st, alloc |-> a,
                        currentFree |-> GetTotalSlots - GetUsedSlotCount(a),
                        evicted |-> <<>>, freeAt |-> <<>>],
                       cands, targetFreeSlots)
    IN [st |-> r.st, alloc |-> r.alloc, evicted |-> r.evicted, freeAt |-> r.freeAt,
        candidates |-> cands]

RECURSIVE ScanDown(_, _, _)
ScanDown(st, imageIndex, lod) ==
    IF lod < 0 THEN NoLod
    ELSE IF Has(st, imageIndex, lod) THEN lod ELSE ScanDown(st, imageIndex, lod - 1)

RECURSIVE ScanUp(_, _, _)
ScanUp(st, imageIndex, lod) ==
    IF lod > MAX_LOD THEN NoLod
    ELSE IF Has(st, imageIndex, lod) THEN lod ELSE ScanUp(st, imageIndex, lod + 1)

\* the mutant scans upwards before it scans downwards
GetBestAvailableLodUpFirst(st, imageIndex, targetLod) ==
    LET u == ScanUp(st, imageIndex, targetLod + 1)
    IN IF u # NoLod THEN u ELSE ScanDown(st, imageIndex, targetLod)

\* getBestAvailableLod of a store built with the default maxLod = 4
GetBestAvailableLod(st, imageIndex, targetLod) ==
    LET d == ScanDown(st, imageIndex, targetLod)
    IN IF d # NoLod THEN d ELSE ScanUp(st, imageIndex, targetLod + 1)

(***************************************************************************)
(* TileLoaderPool (src/src/App.jsx 51-115, src/unnamed/part_002)           *)
(* a pool value: [queue, active, idle, idCounter]                          *)
(* a task: [id, imageIndex, lodLevel, priority]; priority is the rational  *)
(* [num, den]                                                              *)
(***************************************************************************)
Pool == [queue |-> queue, active |-> active, idle |-> idleWorkers, idCounter |-> idCounter]

\* new TileLoaderPool(poolSize): idleWorkers = [...Array(poolSize).keys()]
NewPoolOf(poolSize) == [queue |-> <<>>, active |-> <<>>,
                        idle |-> [i \in 1..poolSize |-> i - 1], idCounter |-> 0]

NewPool == NewPoolOf(PoolSize)

\* the mutant compares strictly, so a new task overtakes its equals
PriorityGreater(p, q) == p.num * q.den > q.num * p.den

\* p >= q on rationals with positive denominators
PriorityGE(p, q) == p.num * q.den >= q.num * p.den

RECURSIVE Dispatch(_)
\* _dispatch(): queue.shift() goes to idleWorkers.pop()
Dispatch(pl) ==
    IF Len(pl.idle) > 0 /\ Len(pl.queue) > 0
    THEN LET task == Head(pl.queue)
             workerIdx == pl.idle[Len(pl.idle)]
         IN Dispatch([pl EXCEPT !.queue = Tail(pl.queue),
                                !.idle = SubSeq(pl.idle, 1, Len(pl.idle) - 1),
                                !.active = MapPut(pl.active, task.id,
                                    [imageIndex |-> task.imageIndex,
                                     lodLevel |-> task.lodLevel,
                                     workerIdx |-> workerIdx])])
    ELSE pl

RECURSIVE InsertIndex(_, _, _)
\* let i = 0; while (i < queue.length && queue[i].priority >= priority) i++
InsertIndex(q, priority, i) ==
    IF i < Len(q) /\ PriorityGE(q[i + 1].priority, priority)
    THEN InsertIndex(q, priority, i + 1) ELSE i

LoadImageTiles(pl, imageIndex, lodLevel, priority) ==
    LET id == pl.idCounter
        i == InsertIndex(pl.queue, priority, 0)
        task == [id |-> id, imageIndex |-> imageIndex, lodLevel |-> lodLevel,
                 priority |-> priority]
    IN Dispatch([pl EXCEPT !.idCounter = id + 1,
                           !.queue = SubSeq(pl.queue, 1, i) \o <<task>>
                                     \o SubSeq(pl.queue, i + 1, Len(pl.queue))])

\* the mutant also cancels the tasks at belowLod itself
IsCancelledAtOrBelow(task, imageIndex, belowLod) ==
    task.imageIndex = imageIndex /\ task.lodLevel <= belowLod

IsCancelled(task, imageIndex, belowLod) ==
    task.imageIndex = imageIndex /\ task.lodLevel < belowLod

\* cancelPending(imageIndex, belowLod): [pool, rejected tasks in queue order]
CancelPending(pl, imageIndex, belowLod) ==
    [pool |-> [pl EXCEPT !.queue = SelectSeq(pl.queue,
                              LAMBDA t : ~IsCancelled(t, imageIndex, belowLod))],
     rejected |-> SelectSeq(pl.queue, LAMBDA t : IsCancelled(t, imageIndex, belowLod))]

\* the mutant rejects the queued tasks and forgets to empty the queue
DisposeKeepQueue(pl) == [pool |-> pl, rejected |-> pl.queue]

\* dispose(): [pool, rejected tasks in queue order]; the workers are terminated
Dispose(pl) == [pool |-> [pl EXCEPT !.queue = <<>>], rejected |-> pl.queue]

\* the mutant forgets to return the worker to the idle list
OnMessageKeepBusy(pl, id) ==
    IF id \in DOMAIN pl.active
    THEN Dispatch([pl EXCEPT !.active = MapDel(pl.active, id)])
    ELSE pl

\* worker.onmessage for a 'done' or 'error' message of task id
OnMessage(pl, id) ==
    IF id \in DOMAIN pl.active
    THEN Dispatch([pl EXCEPT !.active = MapDel(pl.active, id),
                             !.idle = Append(pl.idle, pl.active[id].workerIdx)])
    ELSE pl

(***************************************************************************)
(* Grid layout and LOD (src/src/App.jsx 13-48, 125-131)                    *)
(***************************************************************************)
CeilSqrt(n) == CHOOSE k \in 0..n : k * k >= n /\ (k = 0 \/ (k - 1) * (k - 1) < n)
\* Math.sqrt of a perfect square
Sqrt(n) == CHOOSE k \in 0..n : k * k = n

GRID_COLS == CeilSqrt(IMAGE_COUNT)
\* BASE_WORLD_SIZE + GAP in half units
GridStep == 2 * BASE_WORLD_SIZE + 1

ImageScale(imageIndex) == IF imageIndex % 40 = 0 THEN 10 ELSE 1

GetImagePosition(imageIndex) ==
    [x |-> (imageIndex % GRID_COLS) * GridStep,
     y |-> 0 - (imageIndex \div GRID_COLS) * GridStep]

RECURSIVE LodScan(_, _)
LodScan(zoom, i) ==
    IF i < 0 THEN 0
    ELSE IF zoom >= LOD_ZOOM_THRESHOLDS[i + 1] THEN i ELSE LodScan(zoom, i - 1)

GetLodLevel(zoom) == LodScan(zoom, MAX_LOD)

GetImageLodLevel(zoom, imageIndex) == GetLodLevel(zoom * ImageScale(imageIndex))

\* the mutant lets the distance term range over (0, 2]: lodLevel + 2 / (1 + dist)
LoadPriorityWide(imageIndex, lodLevel, cameraX, cameraY) ==
    LET pos == GetImagePosition(imageIndex)
        dx == pos.x - cameraX
        dy == pos.y - cameraY
        d == Sqrt(dx * dx + dy * dy)
    IN [num |-> lodLevel * (2 + d) + 4, den |-> 2 + d]

\* lodLevel + 1 / (1 + dist), dist = sqrt(dx^2 + dy^2) world units, d = 2 * dist
LoadPriority(imageIndex, lodLevel, cameraX, cameraY) ==
    LET pos == GetImagePosition(imageIndex)
        dx == pos.x - cameraX
        dy == pos.y - cameraY
        d == Sqrt(dx * dx + dy * dy)
    IN [num |-> lodLevel * (2 + d) + 2, den |-> 2 + d]

(***************************************************************************)
(* TileSystem useFrame (src/src/App.jsx 235-345)                           *)
(***************************************************************************)
RECURSIVE LodStep(_, _, _)
\* lines 261-274: acc = [cache, pool, rejected, anyLodChanged]
LodStep(visibleImages, zoom, acc) ==
    IF visibleImages = <<>> THEN acc
    ELSE LET idx == Head(visibleImages)
             targetLod == GetImageLodLevel(zoom, idx)
             prevLod == acc.cache[idx]
         IN IF prevLod # targetLod
            THEN LET c == IF targetLod > prevLod
                          THEN CancelPending(acc.pool, idx, targetLod)
                          ELSE [pool |-> acc.pool, rejected |-> <<>>]
                 IN LodStep(Tail(visibleImages), zoom,
                        [cache |-> [acc.cache EXCEPT ![idx] = targetLod],
                         pool |-> c.pool,
                         rejected |-> acc.rejected \o c.rejected,
                         anyLodChanged |-> TRUE])
            ELSE LodStep(Tail(visibleImages), zoom, acc)

\* lines 277-284
CleanLodCache(cache, visibleImages) ==
    [i \in Images |-> IF i \in Range(visibleImages) THEN cache[i] ELSE NoLod]

\* line 290
NeedsLoad(st, idx, targetLod) ==
    ~Has(st, idx, targetLod) /\ ~IsLoading(st, idx, targetLod)

RECURSIVE BuildLoadByLod(_, _, _, _)
\* lines 287-296: the Map lod -> indices as a sequence of [lod, indices] in insertion order
BuildLoadByLod(visibleImages, zoom, st, acc) ==
    IF visibleImages = <<>> THEN acc
    ELSE LET idx == Head(visibleImages)
             targetLod == GetImageLodLevel(zoom, idx)
             j == IF \E i \in 1..Len(acc) : acc[i].lod = targetLod
                  THEN CHOOSE i \in 1..Len(acc) : acc[i].lod = targetLod ELSE 0
             acc1 == IF ~NeedsLoad(st, idx, targetLod) THEN acc
                     ELSE IF j = 0 THEN Append(acc, [lod |-> targetLod, indices |-> <<idx>>])
                     ELSE [acc EXCEPT ![j].indices = Append(@, idx)]
         IN BuildLoadByLod(Tail(visibleImages), zoom, st, acc1)

RECURSIVE EstimatedNeeded(_)
\* lines 301-306
EstimatedNeeded(loadByLod) ==
    IF loadByLod = <<>> THEN 0
    ELSE Len(Head(loadByLod).indices) * Min(Pow(4, Head(loadByLod).lod), 64)
         + EstimatedNeeded(Tail(loadByLod))

RECURSIVE SetRequestedAll(_, _, _)
\* line 354
SetRequestedAll(st, imageIndices, lodLevel) ==
    IF imageIndices = <<>> THEN st
    ELSE SetRequestedAll(SetRequestedLod(st, Head(imageIndices), lodLevel),
                         Tail(imageIndices), lodLevel)

RECURSIVE LoadEach(_, _, _, _, _)
\* lines 356-419, up to the first await of every image: acc = [st, pool, started]
LoadEach(imageIndices, lodLevel, cameraX, cameraY, acc) ==
    IF imageIndices = <<>> THEN acc
    ELSE LET imageIndex == Head(imageIndices)
             skip == \/ Has(acc.st, imageIndex, lodLevel)
                     \/ IsLoading(acc.st, imageIndex, lodLevel)
                     \/ ~ShouldPrioritize(acc.st, imageIndex, lodLevel)
             priority == LoadPriority(imageIndex, lodLevel, cameraX, cameraY)
         IN IF skip THEN LoadEach(Tail(imageIndices), lodLevel, cameraX, cameraY, acc)
            ELSE LoadEach(Tail(imageIndices), lodLevel, cameraX, cameraY,
                     [st |-> SetLoadingPromise(acc.st, imageIndex, lodLevel),
                      pool |-> LoadImageTiles(acc.pool, imageIndex, lodLevel, priority),
                      started |-> Append(acc.started, <<imageIndex, lodLevel>>)])

\* loadImagesAtLod up to its await
LoadImagesAtLod(imageIndices, lodLevel, cameraX, cameraY, acc) ==
    LoadEach(imageIndices, lodLevel, cameraX, cameraY,
        [acc EXCEPT !.st = SetRequestedAll(acc.st, imageIndices, lodLevel)])

RECURSIVE LoadGroups(_, _, _, _)
\* lines 315-319
LoadGroups(loadByLod, cameraX, cameraY, acc) ==
    IF loadByLod = <<>> THEN acc
    ELSE LoadGroups(Tail(loadByLod), cameraX, cameraY,
             LoadImagesAtLod(Head(loadByLod).indices, Head(loadByLod).lod,
                             cameraX, cameraY, acc))

RECURSIVE RebuildLoop(_, _, _, _)
\* rebuildInstances, lines 424-447: acc = [renderedSet, instances]
RebuildLoop(visibleImages, zoom, st, acc) ==
    IF visibleImages = <<>> THEN acc
    ELSE LET imageIndex == Head(visibleImages)
             targetLod == GetImageLodLevel(zoom, imageIndex)
             availableLod == GetBestAvailableLod(st, imageIndex, targetLod)
         IN IF availableLod < 0 THEN RebuildLoop(Tail(visibleImages), zoom, st, acc)
            ELSE RebuildLoop(Tail(visibleImages), zoom, st,
                     [renderedSet |-> acc.renderedSet \cup {<<imageIndex, availableLod>>},
                      instances |-> acc.instances \o Get(st, imageIndex, availableLod)])

RebuildInstances(visibleImages, zoom, st) ==
    RebuildLoop(visibleImages, zoom, st, [renderedSet |-> {}, instances |-> <<>>])

\* the microtasks of the futures a cancelPending rejected
Rejections(tasks) ==
    [i \in 1..Len(tasks) |-> [imageIndex |-> tasks[i].imageIndex,
                              lodLevel |-> tasks[i].lodLevel, outcome |-> "cancelled"]]

\* one frame tick with the camera seeing visibleImages at `zoom`, centred at (cameraX, 0)
FrameCapped(visibleImages, zoom, cameraX, maxTasks) ==
    /\ settled = <<>>
    /\ \E s2 \in {LodStep(visibleImages, zoom,
                     [cache |-> imageLodCache, pool |-> Pool, rejected |-> <<>>,
                      anyLodChanged |-> FALSE])} :
       \E loadByLod \in {BuildLoadByLod(visibleImages, zoom, Store, <<>>)} :
       LET visibilityChanged == visibleImages # visibleImagesRef
           estimatedNeeded == EstimatedNeeded(loadByLod)
           freeSlots == GetTotalSlots - GetUsedSlotCount(Alloc)
           evictCalled == Len(loadByLod) > 0 /\ freeSlots < estimatedNeeded
           rebuild == needsRebuild \/ visibilityChanged \/ s2.anyLodChanged
       IN \E ev \in {IF evictCalled
                     THEN EvictStale(Store, Alloc, renderedSet, visibleImages, estimatedNeeded)
                     ELSE [st |-> Store, alloc |-> Alloc, evicted |-> <<>>,
                           freeAt |-> <<>>, candidates |-> <<>>]} :
          \E ld \in {LoadGroups(loadByLod, cameraX, 0,
                        [st |-> ev.st, pool |-> s2.pool, started |-> <<>>])} :
          \E rb \in {IF rebuild THEN RebuildInstances(visibleImages, zoom, ld.st)
                     ELSE [renderedSet |-> renderedSet, instances |-> instances]} :
             /\ ld.pool.idCounter <= maxTasks
             /\ visibleImagesRef' = visibleImages
             /\ imageLodCache' = IF visibilityChanged
                                 THEN CleanLodCache(s2.cache, visibleImages) ELSE s2.cache
             /\ data' = ld.st.data
             /\ tileKeys' = ld.st.tileKeys
             /\ loadingPromises' = ld.st.loading
             /\ requestedLod' = ld.st.requested
             /\ layerSlots' = ev.alloc.ls
             /\ usedSlots' = ev.alloc.us
             /\ UNCHANGED atlasVars
             /\ queue' = ld.pool.queue
             /\ active' = ld.pool.active
             /\ idleWorkers' = ld.pool.idle
             /\ idCounter' = ld.pool.idCounter
             /\ terminated' = terminated
             /\ settled' = Rejections(s2.rejected)
             /\ needsRebuild' = FALSE
             /\ renderedSet' = rb.renderedSet
             /\ instances' = rb.instances
             /\ last' = [op |-> "frame", evicted |-> ev.evicted, rebuilt |-> rebuild]

\* one frame of the coordinator specification: task ids stay within MaxTasks
Frame(visibleImages, zoom, cameraX) == FrameCapped(visibleImages, zoom, cameraX, MaxTasks)

FrameTick ==
    \E V \in SUBSET Images, zoom \in Zooms, cameraX \in CamXs :
        Frame(SetToSeq(V), zoom, cameraX)

(***************************************************************************)
(* Worker answers and the continuation of loadImagesAtLod                  *)
(***************************************************************************)
\* worker.onmessage, status 'done' or 'error' (lines 60-71): settles the future
WorkerMessage(id, status) ==
    /\ settled = <<>>
    /\ id \in DOMAIN active
    /\ LET pl == OnMessage(Pool, id)
       IN /\ queue' = pl.queue
          /\ active' = pl.active
          /\ idleWorkers' = pl.idle
          /\ idCounter' = pl.idCounter
          /\ terminated' = terminated
    /\ settled' = <<[imageIndex |-> active[id].imageIndex,
                     lodLevel |-> active[id].lodLevel, outcome |-> status]>>
    /\ last' = [op |-> "message", id |-> id, status |-> status]
    /\ UNCHANGED <<allocVars, atlasVars, storeVars, frameVars>>

WorkerDone == \E id \in DOMAIN active : WorkerMessage(id, "done")
WorkerError == \E id \in DOMAIN active : WorkerMessage(id, "error")

\* the mutant keeps the tiles of a partial load allocated
RollbackNone(a, tileKeyList) == a

\* lines 394, 405: for (const tk of tileKeyList) tileManager.freeTile(tk)
Rollback(a, tileKeyList) == FreeAll(a, tileKeyList)

\* lines 386-407 after `await pool.loadImageTiles(...)` resolved:
\* [st, alloc, complete, late, rebuild]
Completion(st, a, imageIndex, lodLevel, rebuildFlag) ==
    LET late == ~ShouldPrioritize(st, imageIndex, lodLevel)
        r == ProcessTiles(imageIndex, lodLevel, WorkerTiles(imageIndex, lodLevel), a)
    IN [st |-> IF r.complete
               THEN StoreSet(st, imageIndex, lodLevel, r.instances, r.tileKeyList)
               ELSE st,
        alloc |-> IF r.complete THEN r.alloc ELSE Rollback(r.alloc, r.tileKeyList),
        complete |-> r.complete,
        late |-> late,
        rebuild |-> IF late THEN rebuildFlag ELSE TRUE]

\* the next microtask: the async body of lines 377-415 resumes after its await
Continue ==
    /\ settled # <<>>
    /\ \E m \in {Head(settled)} :
       \E c \in {IF m.outcome = "done"
                 THEN Completion(Store, Alloc, m.imageIndex, m.lodLevel, needsRebuild)
                 ELSE [st |-> Store, alloc |-> Alloc, complete |-> FALSE, late |-> FALSE,
                       rebuild |-> needsRebuild]} :
       \E st1 \in {ClearLoadingPromise(c.st, m.imageIndex, m.lodLevel)} :
          /\ data' = st1.data
          /\ tileKeys' = st1.tileKeys
          /\ loadingPromises' = st1.loading
          /\ requestedLod' = st1.requested
          /\ layerSlots' = c.alloc.ls
          /\ usedSlots' = c.alloc.us
          /\ UNCHANGED atlasVars
          /\ needsRebuild' = c.rebuild
          /\ last' = [op |-> "continue", imageIndex |-> m.imageIndex,
                      lodLevel |-> m.lodLevel, outcome |-> m.outcome,
                      complete |-> c.complete, late |-> c.late]
    /\ settled' = Tail(settled)
    /\ UNCHANGED <<poolVars, imageLodCache, visibleImagesRef, renderedSet, instances>>

\* the continuation of a load whose processTiles call raises: the catch block
\* (lines 408-411) logs the error, the finally block clears the loading mark
ContinueRaise ==
    /\ settled # <<>>
    /\ webglTexture
    /\ Head(settled).outcome = "done"
    /\ \E m \in {Head(settled)} :
       \E failAt \in 1..Len(WorkerTiles(m.imageIndex, m.lodLevel)) :
       \E r \in {ProcessTilesRaising(m.imageIndex, m.lodLevel,
                     WorkerTiles(m.imageIndex, m.lodLevel), Alloc, failAt)} :
       \E st1 \in {ClearLoadingPromise(Store, m.imageIndex, m.lodLevel)} :
          /\ r.raised
          /\ data' = st1.data
          /\ tileKeys' = st1.tileKeys
          /\ loadingPromises' = st1.loading
          /\ requestedLod' = st1.requested
          /\ layerSlots' = r.alloc.ls
          /\ usedSlots' = r.alloc.us
          /\ UNCHANGED atlasVars
          /\ last' = [op |-> "continue", imageIndex |-> m.imageIndex,
                      lodLevel |-> m.lodLevel, outcome |-> "raised",
                      complete |-> FALSE,
                      late |-> ~ShouldPrioritize(Store, m.imageIndex, m.lodLevel)]
    /\ settled' = Tail(settled)
    /\ UNCHANGED <<poolVars, frameVars>>

Init ==
    /\ layerSlots = EmptyAllocator.ls
    /\ usedSlots = EmptyAllocator.us
    /\ webglTexture = FALSE
    /\ atlasPixels = <<>>
    /\ data = EmptyStore.data
    /\ tileKeys = EmptyStore.tileKeys
    /\ loadingPromises = EmptyStore.loading
    /\ requestedLod = EmptyStore.requested
    /\ queue = NewPool.queue
    /\ active = NewPool.active
    /\ idleWorkers = NewPool.idle
    /\ idCounter = NewPool.idCounter
    /\ terminated = FALSE
    /\ settled = <<>>
    /\ imageLodCache = [i \in Images |-> NoLod]
    /\ visibleImagesRef = <<>>
    /\ needsRebuild = FALSE
    /\ renderedSet = {}
    /\ instances = <<>>
    /\ last = [op |-> "init"]

Next == FrameTick \/ WorkerDone \/ WorkerError \/ Continue

Spec == Init /\ [][Next]_vars

\* a microtask is waiting; a queued microtask always runs
MicrotaskWaiting == settled # <<>>
FairContinueLive == []<>(~MicrotaskWaiting) \/ []<><<Continue>>_vars

\* the coordinator when every worker answers its task (tileWorker.js posts
\* 'done' or 'error' for every message it receives) and every microtask runs
FairAnswers == WF_vars(WorkerDone \/ WorkerError)

SpecLive == Init /\ [][Next]_vars /\ FairAnswers /\ FairContinueLive

(***************************************************************************)
(* The coordinator with a camera that comes to rest: the camera passes     *)
(* views of one image at zoom 40 and then rests on all images at zoom 80;  *)
(* every decode succeeds.  The render loop runs useFrame on every          *)
(* animation frame, every worker answers its task and every microtask      *)
(* runs, hence the weak fairness of the three actions.  Task ids stay      *)
(* within RetryTasks: a frame that would submit more is not taken, and a   *)
(* behaviour ends there.                                                   *)
(***************************************************************************)
MoveViews == {[V |-> {i}, zoom |-> 40, x |-> cx] : i \in Images, cx \in CamXs}
RestView == [V |-> Images, zoom |-> 80, x |-> 9]

\* the last frame saw the resting view
AtRest == visibleImagesRef = SetToSeq(RestView.V)

\* the target LOD of image i in the resting view
RestLod(i) == GetImageLodLevel(RestView.zoom, i)

FrameTickRetry ==
    \E v \in MoveViews \cup {RestView} :
        /\ AtRest => v = RestView
        /\ FrameCapped(SetToSeq(v.V), v.zoom, v.x, RetryTasks)

NextRetry == FrameTickRetry \/ WorkerDone \/ Continue

\* the tasks a frame with this view submits: one for each visible image whose
\* target LOD is neither cached nor loading (lines 287-296, 315-319)
PendingLoads(visibleImages, zoom) ==
    SumSeq([k \in 1..Len(BuildLoadByLod(visibleImages, zoom, Store, <<>>)) |->
               Len(BuildLoadByLod(visibleImages, zoom, Store, <<>>)[k].indices)])

\* ENABLED FrameTickRetry: no microtask is pending and some admitted view
\* keeps the task ids within RetryTasks
FrameEnabled ==
    /\ settled = <<>>
    /\ \E v \in MoveViews \cup {RestView} :
          /\ AtRest => v = RestView
          /\ idCounter + PendingLoads(SetToSeq(v.V), v.zoom) <= RetryTasks

\* ENABLED Continue: a settled future waits for its continuation
ContinueEnabled == settled # <<>>

\* WF_vars(FrameTickRetry) and WF_vars(Continue), with the enabling conditions
\* written as the state predicates above
FairFrames == []<>(~FrameEnabled) \/ []<><<FrameTickRetry>>_vars
FairContinue == []<>(~ContinueEnabled) \/ []<><<Continue>>_vars

SpecRetry ==
    /\ Init /\ [][NextRetry]_vars
    /\ FairFrames /\ WF_vars(WorkerDone) /\ FairContinue

(***************************************************************************)
(* The slot allocator on its own: any sequence of allocate and free        *)
(***************************************************************************)
AllocKeys == {<<1, 0, t, 0>> : t \in 0..(NumAllocKeys - 1)}

AllocAllocate(tileKey) ==
    /\ \E r \in {Allocate(Alloc, tileKey)} :
          /\ layerSlots' = r.alloc.ls
          /\ usedSlots' = r.alloc.us
          /\ UNCHANGED atlasVars
          /\ last' = [op |-> "allocate", key |-> tileKey, slot |-> r.slot,
                      had |-> AllocHas(Alloc, tileKey),
                      usedBefore |-> GetUsedCount(Alloc)]
    /\ UNCHANGED <<storeVars, poolVars, frameVars, settled>>

AllocFree(tileKey) ==
    /\ \E a \in {Free(Alloc, tileKey)} :
          /\ layerSlots' = a.ls
          /\ usedSlots' = a.us
          /\ UNCHANGED atlasVars
          /\ last' = [op |-> "free", key |-> tileKey,
                      had |-> AllocHas(Alloc, tileKey),
                      usedBefore |-> GetUsedCount(Alloc),
                      afterNew |-> /\ last.op = "allocate" /\ last.key = tileKey
                                   /\ ~last.had /\ last.slot # NoSlot]
    /\ UNCHANGED <<storeVars, poolVars, frameVars, settled>>

DoAllocate == \E k \in AllocKeys : AllocAllocate(k)
DoFree == \E k \in AllocKeys : AllocFree(k)

NextAlloc == DoAllocate \/ DoFree

SpecAlloc == Init /\ [][NextAlloc]_vars

\* the same operations on an allocator constructed with AllocLayers layers
InitLayers ==
    /\ layerSlots = [l \in 0..(AllocLayers - 1) |-> {}]
    /\ usedSlots = <<>>
    /\ webglTexture = FALSE
    /\ atlasPixels = <<>>
    /\ data = EmptyStore.data
    /\ tileKeys = EmptyStore.tileKeys
    /\ loadingPromises = EmptyStore.loading
    /\ requestedLod = EmptyStore.requested
    /\ queue = NewPool.queue
    /\ active = NewPool.active
    /\ idleWorkers = NewPool.idle
    /\ idCounter = NewPool.idCounter
    /\ terminated = FALSE
    /\ settled = <<>>
    /\ imageLodCache = [i \in Images |-> NoLod]
    /\ visibleImagesRef = <<>>
    /\ needsRebuild = FALSE
    /\ renderedSet = {}
    /\ instances = <<>>
    /\ last = [op |-> "init"]

SpecLayers == InitLayers /\ [][NextAlloc]_vars

(***************************************************************************)
(* The data store over the allocator on its own, driven as its unit tests  *)
(* drive it: a setup (load an entry: upload every tile, then set; mark and *)
(* unmark a load; set a requested LOD) and then one evictStale with any    *)
(* arguments, which ends the scenario                                      *)
(***************************************************************************)
SetupPhase == last.op # "evictStale"
StoreLods == 0..MaxStoreLod
StorePairs == Images \X StoreLods

\* upload the tiles of (image, lod) and set the entry, as a completed load does
StoreLoad(imageIndex, lodLevel) ==
    /\ SetupPhase
    /\ ~Has(Store, imageIndex, lodLevel)
    /\ \E c \in {Completion(Store, Alloc, imageIndex, lodLevel, FALSE)} :
          /\ data' = c.st.data
          /\ tileKeys' = c.st.tileKeys
          /\ layerSlots' = c.alloc.ls
          /\ usedSlots' = c.alloc.us
          /\ UNCHANGED atlasVars
          /\ last' = [op |-> "load", imageIndex |-> imageIndex, lodLevel |-> lodLevel,
                      complete |-> c.complete]
    /\ UNCHANGED <<loadingPromises, requestedLod, poolVars, frameVars, settled>>

StoreSetRequested(imageIndex, lodLevel) ==
    /\ SetupPhase
    /\ requestedLod' = SetRequestedLod(Store, imageIndex, lodLevel).requested
    /\ last' = [op |-> "setRequestedLod", imageIndex |-> imageIndex, lodLevel |-> lodLevel,
                previous |-> GetRequestedLod(Store, imageIndex)]
    /\ UNCHANGED <<allocVars, atlasVars, data, tileKeys, loadingPromises, poolVars, frameVars, settled>>

StoreSetLoading(imageIndex, lodLevel) ==
    /\ SetupPhase
    /\ Cardinality(loadingPromises) < MaxStoreLoading
    /\ loadingPromises' = SetLoadingPromise(Store, imageIndex, lodLevel).loading
    /\ last' = [op |-> "setLoadingPromise"]
    /\ UNCHANGED <<allocVars, atlasVars, data, tileKeys, requestedLod, poolVars, frameVars, settled>>

StoreClearLoading(imageIndex, lodLevel) ==
    /\ SetupPhase
    /\ IsLoading(Store, imageIndex, lodLevel)
    /\ loadingPromises' = ClearLoadingPromise(Store, imageIndex, lodLevel).loading
    /\ last' = [op |-> "clearLoadingPromise"]
    /\ UNCHANGED <<allocVars, atlasVars, data, tileKeys, requestedLod, poolVars, frameVars, settled>>

StoreEvict(renderedKeys, visibleImages, targetFreeSlots) ==
    /\ SetupPhase
    /\ \E ev \in {EvictStale(Store, Alloc, renderedKeys, visibleImages, targetFreeSlots)} :
          /\ data' = ev.st.data
          /\ tileKeys' = ev.st.tileKeys
          /\ loadingPromises' = ev.st.loading
          /\ requestedLod' = ev.st.requested
          /\ layerSlots' = ev.alloc.ls
          /\ usedSlots' = ev.alloc.us
          /\ UNCHANGED atlasVars
          /\ last' = [op |-> "evictStale", rendered |-> renderedKeys,
                      visible |-> visibleImages, target |-> targetFreeSlots,
                      evicted |-> ev.evicted, freeAt |-> ev.freeAt,
                      order |-> FlatData(data),
                      freeBefore |-> GetTotalSlots - GetUsedSlotCount(Alloc)]
    /\ UNCHANGED <<poolVars, frameVars, settled>>

DoStoreLoad == \E p \in StorePairs : StoreLoad(p[1], p[2])
DoStoreSetRequested == \E p \in StorePairs : StoreSetRequested(p[1], p[2])
DoStoreSetLoading == \E p \in StorePairs : StoreSetLoading(p[1], p[2])
DoStoreClearLoading == \E p \in StorePairs : StoreClearLoading(p[1], p[2])
DoStoreEvict ==
    \E R \in SUBSET CachedPairs(Store), V \in SUBSET Images,
       t \in 0..(GetTotalSlots + 1) : StoreEvict(R, SetToSeq(V), t)

NextStore == \/ DoStoreLoad \/ DoStoreSetRequested \/ DoStoreSetLoading
             \/ DoStoreClearLoading \/ DoStoreEvict

SpecStore == Init /\ [][NextStore]_vars

(***************************************************************************)
(* The loader pool on its own: a pool of any size up to PoolSize, and any   *)
(* sequence of loadImageTiles, cancelPending and final worker messages      *)
(***************************************************************************)
\* the priorities of the submitted tasks: 1, 2 and 2 again as 4/2
PoolPriorities == {[num |-> 1, den |-> 1], [num |-> 2, den |-> 1], [num |-> 4, den |-> 2]}
PoolPairs == {<<1, 0>>, <<1, 1>>, <<2, 0>>}

InitPool ==
    \E poolSize \in 1..PoolSize :
        /\ layerSlots = EmptyAllocator.ls
        /\ usedSlots = EmptyAllocator.us
        /\ webglTexture = FALSE
        /\ atlasPixels = <<>>
        /\ data = EmptyStore.data
        /\ tileKeys = EmptyStore.tileKeys
        /\ loadingPromises = EmptyStore.loading
        /\ requestedLod = EmptyStore.requested
        /\ queue = NewPoolOf(poolSize).queue
        /\ active = NewPoolOf(poolSize).active
        /\ idleWorkers = NewPoolOf(poolSize).idle
        /\ idCounter = NewPoolOf(poolSize).idCounter
        /\ terminated = FALSE
        /\ settled = <<>>
        /\ imageLodCache = [i \in Images |-> NoLod]
        /\ visibleImagesRef = <<>>
        /\ needsRebuild = FALSE
        /\ renderedSet = {}
        /\ instances = <<>>
        /\ last = [op |-> "init"]

PoolLoad(imageIndex, lodLevel, priority) ==
    /\ idCounter < MaxPoolTasks
    /\ \E pl \in {LoadImageTiles(Pool, imageIndex, lodLevel, priority)} :
          /\ queue' = pl.queue
          /\ active' = pl.active
          /\ idleWorkers' = pl.idle
          /\ idCounter' = pl.idCounter
          /\ terminated' = terminated
    /\ last' = [op |-> "loadImageTiles", id |-> idCounter, priority |-> priority]
    /\ UNCHANGED <<allocVars, atlasVars, storeVars, frameVars, settled>>

\* the rejected futures are recorded by the ids of their tasks, in queue order
PoolCancel(imageIndex, belowLod) ==
    /\ \E c \in {CancelPending(Pool, imageIndex, belowLod)} :
          /\ queue' = c.pool.queue
          /\ active' = c.pool.active
          /\ idleWorkers' = c.pool.idle
          /\ idCounter' = c.pool.idCounter
          /\ terminated' = terminated
          /\ last' = [op |-> "cancelPending", imageIndex |-> imageIndex,
                      belowLod |-> belowLod,
                      rejected |-> [i \in 1..Len(c.rejected) |-> c.rejected[i].id]]
    /\ UNCHANGED <<allocVars, atlasVars, storeVars, frameVars, settled>>

\* a 'done' or 'error' message of a dispatched task
PoolMessage(id, status) ==
    /\ ~terminated
    /\ id \in DOMAIN active
    /\ \E pl \in {OnMessage(Pool, id)} :
          /\ queue' = pl.queue
          /\ active' = pl.active
          /\ idleWorkers' = pl.idle
          /\ idCounter' = pl.idCounter
          /\ terminated' = terminated
    /\ last' = [op |-> "message", id |-> id, status |-> status]
    /\ UNCHANGED <<allocVars, atlasVars, storeVars, frameVars, settled>>

DoPoolLoad == \E p \in PoolPairs, pr \in PoolPriorities : PoolLoad(p[1], p[2], pr)
DoPoolCancel == \E i \in Images, b \in 0..(MaxStoreLod + 1) : PoolCancel(i, b)
DoPoolMessage == \E id \in DOMAIN active, st \in {"done", "error"} : PoolMessage(id, st)

NextPool == DoPoolLoad \/ DoPoolCancel \/ DoPoolMessage

SpecPool == InitPool /\ [][NextPool]_vars

\* the pool fed with the priorities loadImagesAtLod computes (App.jsx 370-375):
\* the camera is on image 1, on image 2 or 50 world units to the right of image 1
PriorityCamXs == {9, 18, 109}
PriorityPairs == Images \X (0..2)

DoPoolLoadAt ==
    \E p \in PriorityPairs, cameraX \in PriorityCamXs :
        PoolLoad(p[1], p[2], LoadPriority(p[1], p[2], cameraX, 0))

NextPriority == DoPoolLoadAt \/ DoPoolCancel \/ DoPoolMessage

SpecPriority == InitPool /\ [][NextPriority]_vars

\* the pool with dispose(): a terminated worker posts no message, and nothing
\* stops loadImageTiles and cancelPending from being called afterwards
PoolDispose ==
    /\ \E d \in {Dispose(Pool)} :
          /\ queue' = d.pool.queue
          /\ active' = d.pool.active
          /\ idleWorkers' = d.pool.idle
          /\ idCounter' = d.pool.idCounter
          /\ last' = [op |-> "dispose", error |-> "disposed",
                      rejected |-> [i \in 1..Len(d.rejected) |-> d.rejected[i].id]]
    /\ terminated' = TRUE
    /\ UNCHANGED <<allocVars, atlasVars, storeVars, frameVars, settled>>

NextDispose == DoPoolLoad \/ DoPoolCancel \/ DoPoolMessage \/ PoolDispose

SpecDispose == InitPool /\ [][NextDispose]_vars

\* the same pool when every worker that has not been terminated answers its task
SpecDisposeFair == InitPool /\ [][NextDispose]_vars /\ WF_vars(DoPoolMessage)

(***************************************************************************)
(* The TileManager on its own, with the GL side of uploadTile: the renderer *)
(* creates the texture at its first use, at any time; processTiles closes   *)
(* the bitmap right after uploadTile, so a bitmap is offered once           *)
(***************************************************************************)
AtlasKeys == {<<1, 0, t, 0>> : t \in 0..(NumAtlasKeys - 1)}

Manager == [alloc |-> Alloc, texture |-> webglTexture, pixels |-> atlasPixels]

AtlasRealize ==
    /\ ~webglTexture
    /\ webglTexture' = TRUE
    /\ last' = [op |-> "realize"]
    /\ UNCHANGED <<allocVars, atlasPixels, storeVars, poolVars, frameVars, settled>>

\* uploadTile(tileKey, bitmap); bitmap.close()
AtlasUpload(tileKey) ==
    /\ \E r \in {UploadTileGl(Manager, tileKey)} :
          /\ layerSlots' = r.tm.alloc.ls
          /\ usedSlots' = r.tm.alloc.us
          /\ atlasPixels' = r.tm.pixels
          /\ last' = [op |-> "uploadTile", key |-> tileKey, slot |-> r.slot,
                      texture |-> webglTexture]
    /\ UNCHANGED <<webglTexture, storeVars, poolVars, frameVars, settled>>

AtlasFree(tileKey) ==
    /\ \E a \in {FreeTile(Alloc, tileKey)} :
          /\ layerSlots' = a.ls
          /\ usedSlots' = a.us
    /\ last' = [op |-> "freeTile", key |-> tileKey]
    /\ UNCHANGED <<atlasVars, storeVars, poolVars, frameVars, settled>>

DoAtlasUpload == \E k \in AtlasKeys : AtlasUpload(k)
DoAtlasFree == \E k \in AtlasKeys : AtlasFree(k)

NextAtlas == AtlasRealize \/ DoAtlasUpload \/ DoAtlasFree

\* the renderer draws in every animation frame, so the texture comes to exist
SpecAtlas == Init /\ [][NextAtlas]_vars /\ WF_vars(AtlasRealize)

(***************************************************************************)
(* LOD selection (src/src/tileWorker.js 131-186); densities and ratios are  *)
(* fractions, Math.log2 is the exact logarithm                              *)
(***************************************************************************)
\* getTilePixelDensity as the fraction num / den
GetTilePixelDensity(lodLevel, tileSize, baseWorldSize) ==
    [num |-> tileSize * Pow(2, lodLevel), den |-> baseWorldSize]

RECURSIVE CeilLog2(_, _, _)
\* Math.ceil(Math.log2(num / den)) for num > den > 0, counted up from n
CeilLog2(num, den, n) ==
    IF den * Pow(2, n) >= num THEN n ELSE CeilLog2(num, den, n + 1)

RECURSIVE FloorLog2(_, _, _)
\* Math.floor(Math.log2(num / den)) for num > den > 0, counted up from n
FloorLog2(num, den, n) ==
    IF den * Pow(2, n + 1) > num THEN n ELSE FloorLog2(num, den, n + 1)

\* the mutant rounds the logarithm down and adds one
SelectLodFloorPlusOne(screenPxPerUnit, tileSize, baseWorldSize, maxLod) ==
    IF screenPxPerUnit <= 0 THEN 0
    ELSE IF screenPxPerUnit * baseWorldSize <= tileSize THEN 0
    ELSE Min(FloorLog2(screenPxPerUnit * baseWorldSize, tileSize, 0) + 1, maxLod)

\* the mutant forgets the cap at maxLod
SelectLodNoCap(screenPxPerUnit, tileSize, baseWorldSize, maxLod) ==
    IF screenPxPerUnit <= 0 THEN 0
    ELSE IF screenPxPerUnit * baseWorldSize <= tileSize THEN 0
    ELSE CeilLog2(screenPxPerUnit * baseWorldSize, tileSize, 0)

\* ratio = screenPxPerUnit / (tileSize / baseWorldSize)
SelectLod(screenPxPerUnit, tileSize, baseWorldSize, maxLod) ==
    IF screenPxPerUnit <= 0 THEN 0
    ELSE IF screenPxPerUnit * baseWorldSize <= tileSize THEN 0
    ELSE Min(CeilLog2(screenPxPerUnit * baseWorldSize, tileSize, 0), maxLod)

GetMaxUsefulLod(imagePixelSize, tileSize) ==
    IF imagePixelSize <= tileSize THEN 0 ELSE FloorLog2(imagePixelSize, tileSize, 0)

\* an imagePixelSize that is undefined
NoSize == 0 - 1

\* the mutant ignores the native resolution of the image
SelectImageLodIgnoreCap(screenPxPerUnit, tileSize, baseWorldSize, maxLod, imagePixelSize, imageScale) ==
    SelectLod(screenPxPerUnit * imageScale, tileSize, baseWorldSize, maxLod)

SelectImageLod(screenPxPerUnit, tileSize, baseWorldSize, maxLod, imagePixelSize, imageScale) ==
    LET lod == SelectLod(screenPxPerUnit * imageScale, tileSize, baseWorldSize, maxLod)
    IN IF imagePixelSize # NoSize
       THEN Min(lod, GetMaxUsefulLod(imagePixelSize, tileSize)) ELSE lod

(***************************************************************************)
(* The LOD functions on their own: one application to inputs drawn from    *)
(* the sets below                                                          *)
(***************************************************************************)
SelectZooms == ((0 - 5)..MaxSelectZoom) \cup {5000}
\* the demands around the multiples of 32
PairZooms == {z \in SelectZooms : z <= 1 \/ z % 32 \in {0, 1, 31}}
ImageZooms == {z \in SelectZooms : z <= 110 \/ z % 32 \in {0, 1, 31}}
ImageSizes == {NoSize, 0, 128, 256, 257, 511, 512, 1024, 1500, 2048, 4096, 8192}
ImageScales == {1, 10}
PixelRatios == {1, 2}

SelectLodAt(zoom, maxLod) ==
    /\ last' = [op |-> "selectLod", zoom |-> zoom, maxLod |-> maxLod,
                result |-> SelectLod(zoom, TILE_SIZE, BASE_WORLD_SIZE, maxLod)]
    /\ UNCHANGED <<allocVars, atlasVars, storeVars, poolVars, frameVars, settled>>

SelectLodPair(zoomA, zoomB, maxLod) ==
    /\ last' = [op |-> "selectLodPair", zoomA |-> zoomA, zoomB |-> zoomB, maxLod |-> maxLod,
                resultA |-> SelectLod(zoomA, TILE_SIZE, BASE_WORLD_SIZE, maxLod),
                resultB |-> SelectLod(zoomB, TILE_SIZE, BASE_WORLD_SIZE, maxLod)]
    /\ UNCHANGED <<allocVars, atlasVars, storeVars, poolVars, frameVars, settled>>

SelectImageLodAt(zoom, imagePixelSize, imageScale) ==
    /\ last' = [op |-> "selectImageLod", zoom |-> zoom, imagePixelSize |-> imagePixelSize,
                imageScale |-> imageScale,
                result |-> SelectImageLod(zoom, TILE_SIZE, BASE_WORLD_SIZE, MAX_LOD,
                                          imagePixelSize, imageScale)]
    /\ UNCHANGED <<allocVars, atlasVars, storeVars, poolVars, frameVars, settled>>

\* the target LOD of useFrame for one visible image (App.jsx 254-262); the
\* device pixel ratio is the display's, the frame does not read it
TargetLodAt(zoom, pixelRatio, imageIndex) ==
    /\ last' = [op |-> "targetLod", zoom |-> zoom, pixelRatio |-> pixelRatio,
                imageIndex |-> imageIndex,
                result |-> GetImageLodLevel(zoom, imageIndex)]
    /\ UNCHANGED <<allocVars, atlasVars, storeVars, poolVars, frameVars, settled>>

DoSelectLod == last.op = "init" /\ \E z \in SelectZooms, m \in 0..MAX_LOD : SelectLodAt(z, m)
DoSelectLodPair ==
    last.op = "init" /\ \E a \in PairZooms, b \in PairZooms, m \in 0..MAX_LOD : SelectLodPair(a, b, m)
DoSelectImageLod ==
    last.op = "init" /\ \E z \in ImageZooms, p \in ImageSizes, sc \in ImageScales : SelectImageLodAt(z, p, sc)
DoTargetLod ==
    last.op = "init" /\ \E z \in {x \in SelectZooms : x > 0}, r \in PixelRatios, i \in 0..1 : TargetLodAt(z, r, i)

\* the slot estimate of useFrame for one image that needs lodLevel (App.jsx
\* 298-311) beside the tiles the worker produces for it (tileWorker.js 21-37)
EstimateAt(imageIndex, lodLevel) ==
    /\ last' = [op |-> "estimate", imageIndex |-> imageIndex, lodLevel |-> lodLevel,
                estimatedNeeded |-> EstimatedNeeded(<<[lod |-> lodLevel,
                                                      indices |-> <<imageIndex>>]>>),
                tilesX |-> TilesX(imageIndex, lodLevel),
                tilesY |-> TilesY(imageIndex, lodLevel),
                tiles |-> Len(WorkerTiles(imageIndex, lodLevel))]
    /\ UNCHANGED <<allocVars, atlasVars, storeVars, poolVars, frameVars, settled>>

DoEstimate ==
    last.op = "init" /\ \E i \in 0..(IMAGE_COUNT - 1), l \in 0..MAX_LOD : EstimateAt(i, l)

\* one application per behaviour
NextSelect == DoSelectLod \/ DoSelectLodPair \/ DoSelectImageLod \/ DoTargetLod \/ DoEstimate

SpecSelect == Init /\ [][NextSelect]_vars

(***************************************************************************)
(* VisibilityChecker (src/src/VisibilityChecker.js) for the grid of App.jsx *)
(* Lengths are in thousandths of a world unit; sin and cos of PI / 4 are    *)
(* 707 / 1000; the camera is the orthographic camera of the tests, looking  *)
(* down the z axis at the planes, so that Frustum.intersectsBox is the      *)
(* overlap of two rectangles, touching included                             *)
(***************************************************************************)
\* rotations[i] of App.jsx: every 10th image is rotated by PI / 4
IsRotated(i) == i % 10 = 0

\* the world bounding box of plane i (constructor, lines 24-58)
PlaneBox(i) ==
    LET x == (i % GRID_COLS) * (BASE_WORLD_SIZE * 1000 + 500)
        y == 0 - (i \div GRID_COLS) * (BASE_WORLD_SIZE * 1000 + 500)
        contentSize == BASE_WORLD_SIZE * 1000 * ImageScale(i)
        boundSize == IF IsRotated(i) THEN (contentSize * (707 + 707)) \div 1000 ELSE contentSize
        halfSize == contentSize \div 2
        centerOffsetX == IF IsRotated(i) THEN (halfSize * 707 + halfSize * 707) \div 1000
                         ELSE halfSize
        centerOffsetY == IF IsRotated(i) THEN (halfSize * 707 - halfSize * 707) \div 1000
                         ELSE 0 - halfSize
    IN [minX |-> x + centerOffsetX - boundSize \div 2,
        maxX |-> x + centerOffsetX + boundSize \div 2,
        minY |-> y + centerOffsetY - boundSize \div 2,
        maxY |-> y + centerOffsetY + boundSize \div 2]

\* the rectangle the camera [x, y, zoom] sees of the plane z = 0
CameraBox(camera) ==
    LET halfW == (VIEW_WIDTH * 1000) \div (2 * camera.zoom)
        halfH == (VIEW_HEIGHT * 1000) \div (2 * camera.zoom)
    IN [minX |-> camera.x - halfW, maxX |-> camera.x + halfW,
        minY |-> camera.y - halfH, maxY |-> camera.y + halfH]

\* this.frustum.intersectsBox(this.boundingBox)
IntersectsBox(camera, box) ==
    LET c == CameraBox(camera)
    IN /\ box.maxX >= c.minX /\ box.minX <= c.maxX
       /\ box.maxY >= c.minY /\ box.minY <= c.maxY

RECURSIVE VisibleLoop(_, _, _)
\* for (const plane of this.planes): planes[i] has userData.imageIndex = i
VisibleLoop(camera, i, visible) ==
    IF i >= IMAGE_COUNT THEN visible
    ELSE VisibleLoop(camera, i + 1,
             IF IntersectsBox(camera, PlaneBox(i)) THEN Append(visible, i) ELSE visible)

GetVisibleImages(camera) == VisibleLoop(camera, 0, <<>>)

\* the mutant takes index 0 for out of range
IsImageVisibleFromOne(imageIndex, camera) ==
    IF imageIndex <= 0 \/ imageIndex >= IMAGE_COUNT THEN FALSE
    ELSE IntersectsBox(camera, PlaneBox(imageIndex))

IsImageVisible(imageIndex, camera) ==
    IF imageIndex < 0 \/ imageIndex >= IMAGE_COUNT THEN FALSE
    ELSE IntersectsBox(camera, PlaneBox(imageIndex))

\* the cameras of the visibility specification
VisCameras ==
    [x : {0 - 5000, 0, 2000, 9000, 10000, 20000, 30000, 1000000},
     y : {0 - 20000, 0 - 10000, 0 - 2000, 0, 5000},
     zoom : {5, 10, 40, 200}]

\* getVisibleImages(camera) and isImageVisible(i, camera) for every index from
\* -1 to one past the last image
VisQuery(camera) ==
    /\ last' = [op |-> "getVisibleImages", camera |-> camera,
                visible |-> GetVisibleImages(camera),
                isVisible |-> [i \in (0 - 1)..IMAGE_COUNT |-> IsImageVisible(i, camera)]]
    /\ UNCHANGED <<allocVars, atlasVars, storeVars, poolVars, frameVars, settled>>

NextVis == \E camera \in VisCameras : VisQuery(camera)

SpecVis == Init /\ [][NextVis]_vars

(***************************************************************************)
(* getBestAvailableLod on its own, as its unit tests drive it: entries set  *)
(* without tile keys, at LODs up to one above maxLod, then queries          *)
(***************************************************************************)
LodInputs == 0..(MAX_LOD + 1)

LodSet(imageIndex, lodLevel) ==
    /\ Len(FlatData(data)) < MaxLodEntries
    /\ ~Has(Store, imageIndex, lodLevel)
    /\ data' = StoreSetData(Store, imageIndex, lodLevel, <<"inst">>).data
    /\ last' = [op |-> "set"]
    /\ UNCHANGED <<allocVars, atlasVars, tileKeys, loadingPromises, requestedLod, poolVars,
                   frameVars, settled>>

LodQuery(imageIndex, targetLod) ==
    /\ last' = [op |-> "getBestAvailableLod", imageIndex |-> imageIndex,
                targetLod |-> targetLod,
                result |-> GetBestAvailableLod(Store, imageIndex, targetLod)]
    /\ UNCHANGED <<allocVars, atlasVars, storeVars, poolVars, frameVars, settled>>

DoLodSet == \E i \in Images, l \in LodInputs : LodSet(i, l)
DoLodQuery == \E i \in Images, l \in 0..MAX_LOD : LodQuery(i, l)

NextLod == DoLodSet \/ DoLodQuery

SpecLod == Init /\ [][NextLod]_vars

(***************************************************************************)
(* The stacked layout (src/src/AppStacked.jsx): its own TileLoaderPool     *)
(* (round robin, no queue: `active` holds its pending map), its own        *)
(* TileDataStore (no tile keys, no eviction) and its own TileSystem, whose *)
(* single currentLodRef is kept in imageLodCache for every image.          *)
(***************************************************************************)
\* TileDataStore.setRequestedLod, lines 224-229: the requested LOD is only raised
SetRequestedLodStacked(st, imageIndex, lodLevel) ==
    IF lodLevel > st.requested[imageIndex]
    THEN [st EXCEPT !.requested[imageIndex] = lodLevel] ELSE st

RECURSIVE StackedSetRequestedAll(_, _, _)
\* line 378
StackedSetRequestedAll(st, imageIndices, lodLevel) ==
    IF imageIndices = <<>> THEN st
    ELSE StackedSetRequestedAll(SetRequestedLodStacked(st, Head(imageIndices), lodLevel),
                                Tail(imageIndices), lodLevel)

RECURSIVE InsertByRequested(_, _, _)
\* stable insertion into a list sorted by requested LOD, highest first
InsertByRequested(st, sorted, x) ==
    IF sorted = <<>> THEN <<x>>
    ELSE IF GetRequestedLod(st, Head(sorted)) >= GetRequestedLod(st, x)
         THEN <<Head(sorted)>> \o InsertByRequested(st, Tail(sorted), x)
         ELSE <<x>> \o sorted

RECURSIVE SortByRequested(_, _, _)
\* lines 380-384: [...imageIndices].sort((a, b) => lodB - lodA)
SortByRequested(st, sorted, rest) ==
    IF rest = <<>> THEN sorted
    ELSE SortByRequested(st, InsertByRequested(st, sorted, Head(rest)), Tail(rest))

\* TileLoaderPool.loadImageTiles, lines 82-92: nextWorker advances once per call,
\* so the worker of task id is id % workers.length
StackedLoadImageTiles(pl, imageIndex, lodLevel) ==
    LET id == pl.idCounter
    IN [pl EXCEPT !.idCounter = id + 1,
                  !.active = MapPut(pl.active, id,
                                 [imageIndex |-> imageIndex, lodLevel |-> lodLevel,
                                  workerIdx |-> id % STACKED_POOL_SIZE])]

RECURSIVE StackedLoadEach(_, _, _)
\* lines 386-422 up to the await of every image: acc = [st, pool, started]
StackedLoadEach(imageIndices, lodLevel, acc) ==
    IF imageIndices = <<>> THEN acc
    ELSE LET imageIndex == Head(imageIndices)
             skip == \/ Has(acc.st, imageIndex, lodLevel)
                     \/ IsLoading(acc.st, imageIndex, lodLevel)
                     \/ ~ShouldPrioritize(acc.st, imageIndex, lodLevel)
         IN IF skip THEN StackedLoadEach(Tail(imageIndices), lodLevel, acc)
            ELSE StackedLoadEach(Tail(imageIndices), lodLevel,
                     [st |-> SetLoadingPromise(acc.st, imageIndex, lodLevel),
                      pool |-> StackedLoadImageTiles(acc.pool, imageIndex, lodLevel),
                      started |-> Append(acc.started, <<imageIndex, lodLevel>>)])

\* loadImagesAtLod (lines 375-425) up to its await
StackedLoadImagesAtLod(imageIndices, lodLevel, acc) ==
    LET st1 == StackedSetRequestedAll(acc.st, imageIndices, lodLevel)
    IN StackedLoadEach(SortByRequested(st1, <<>>, imageIndices), lodLevel,
                       [acc EXCEPT !.st = st1])

\* getImageStackInfo, lines 108-112
IndexInStack(imageIndex) == imageIndex % IMAGES_PER_STACK

RECURSIVE InsertByStack(_, _)
InsertByStack(sorted, x) ==
    IF sorted = <<>> THEN <<x>>
    ELSE IF IndexInStack(Head(sorted)) <= IndexInStack(x)
         THEN <<Head(sorted)>> \o InsertByStack(Tail(sorted), x)
         ELSE <<x>> \o sorted

RECURSIVE SortByStack(_, _)
\* lines 431-435: images at the back of the stack first
SortByStack(sorted, rest) ==
    IF rest = <<>> THEN sorted
    ELSE SortByStack(InsertByStack(sorted, Head(rest)), Tail(rest))

RECURSIVE StackedRebuildLoop(_, _, _, _)
\* lines 437-447; getBestAvailableLod (lines 239-246) only scans downwards
StackedRebuildLoop(sortedImages, targetLod, st, acc) ==
    IF sortedImages = <<>> THEN acc
    ELSE LET imageIndex == Head(sortedImages)
             availableLod == ScanDown(st, imageIndex, targetLod)
         IN IF availableLod < 0
            THEN StackedRebuildLoop(Tail(sortedImages), targetLod, st, acc)
            ELSE StackedRebuildLoop(Tail(sortedImages), targetLod, st,
                     [renderedSet |-> acc.renderedSet \cup {<<imageIndex, availableLod>>},
                      instances |-> acc.instances \o Get(st, imageIndex, availableLod)])

\* rebuildInstances, lines 427-451
StackedRebuildInstances(visibleImages, targetLod, st) ==
    StackedRebuildLoop(SortByStack(<<>>, visibleImages), targetLod, st,
                       [renderedSet |-> {}, instances |-> <<>>])

\* useFrame, lines 319-369, with the camera seeing visibleImages at `zoom`
StackedFrame(visibleImages, zoom) ==
    /\ settled = <<>>
    /\ \E targetLod \in {GetLodLevel(zoom)} :
       \E imagesToLoad \in {SelectSeq(visibleImages,
                               LAMBDA idx : NeedsLoad(Store, idx, targetLod))} :
       \E ld \in {IF Len(imagesToLoad) > 0
                  THEN StackedLoadImagesAtLod(imagesToLoad, targetLod,
                           [st |-> Store, pool |-> Pool, started |-> <<>>])
                  ELSE [st |-> Store, pool |-> Pool, started |-> <<>>]} :
       LET visibilityChanged == visibleImages # visibleImagesRef
           lodChanged == \E i \in Images : targetLod # imageLodCache[i]
           rebuild == needsRebuild \/ visibilityChanged \/ lodChanged
       IN \E rb \in {IF rebuild THEN StackedRebuildInstances(visibleImages, targetLod, ld.st)
                     ELSE [renderedSet |-> renderedSet, instances |-> instances]} :
             /\ ld.pool.idCounter <= StackedTasks
             /\ visibleImagesRef' = visibleImages
             /\ imageLodCache' = [i \in Images |-> targetLod]
             /\ data' = ld.st.data
             /\ tileKeys' = ld.st.tileKeys
             /\ loadingPromises' = ld.st.loading
             /\ requestedLod' = ld.st.requested
             /\ queue' = ld.pool.queue
             /\ active' = ld.pool.active
             /\ idleWorkers' = ld.pool.idle
             /\ idCounter' = ld.pool.idCounter
             /\ needsRebuild' = FALSE
             /\ renderedSet' = rb.renderedSet
             /\ instances' = rb.instances
             /\ last' = [op |-> "frame", started |-> ld.started, rebuilt |-> rebuild]
    /\ UNCHANGED <<allocVars, atlasVars, terminated, settled>>

StackedFrameTick ==
    \E V \in SUBSET Images, zoom \in Zooms : StackedFrame(SetToSeq(V), zoom)

\* TileLoaderPool.handleMessage, lines 67-80: settles the future of task id
StackedMessage(id, status) ==
    /\ settled = <<>>
    /\ id \in DOMAIN active
    /\ active' = MapDel(active, id)
    /\ settled' = <<[imageIndex |-> active[id].imageIndex,
                     lodLevel |-> active[id].lodLevel, outcome |-> status]>>
    /\ last' = [op |-> "message", id |-> id, status |-> status]
    /\ UNCHANGED <<allocVars, atlasVars, storeVars, frameVars, queue, idleWorkers,
                   idCounter, terminated>>

StackedWorkerDone == \E id \in DOMAIN active : StackedMessage(id, "done")
StackedWorkerError == \E id \in DOMAIN active : StackedMessage(id, "error")

\* the next microtask: the async body of lines 398-418 resumes after its await;
\* processTiles (lines 139-179) returns the instances of the tiles that found a
\* slot, and both branches store them
StackedContinue ==
    /\ settled # <<>>
    /\ \E m \in {Head(settled)} :
       \E r \in {ProcessTiles(m.imageIndex, m.lodLevel,
                     WorkerTiles(m.imageIndex, m.lodLevel), Alloc)} :
       LET done == m.outcome = "done"
           late == ~ShouldPrioritize(Store, m.imageIndex, m.lodLevel)
           st0 == IF done THEN StoreSetData(Store, m.imageIndex, m.lodLevel, r.instances)
                  ELSE Store
       IN \E st1 \in {ClearLoadingPromise(st0, m.imageIndex, m.lodLevel)} :
          /\ data' = st1.data
          /\ tileKeys' = st1.tileKeys
          /\ loadingPromises' = st1.loading
          /\ requestedLod' = st1.requested
          /\ layerSlots' = IF done THEN r.alloc.ls ELSE layerSlots
          /\ usedSlots' = IF done THEN r.alloc.us ELSE usedSlots
          /\ needsRebuild' = IF done /\ ~late THEN TRUE ELSE needsRebuild
          /\ last' = [op |-> "continue", imageIndex |-> m.imageIndex,
                      lodLevel |-> m.lodLevel, outcome |-> m.outcome,
                      complete |-> done /\ r.complete, late |-> done /\ late]
    /\ settled' = Tail(settled)
    /\ UNCHANGED <<atlasVars, poolVars, imageLodCache, visibleImagesRef, renderedSet,
                   instances>>

\* after the first render: currentLodRef = 0 (line 293), the pool of getLoaderPool()
InitStacked ==
    /\ layerSlots = EmptyAllocator.ls
    /\ usedSlots = EmptyAllocator.us
    /\ webglTexture = FALSE
    /\ atlasPixels = <<>>
    /\ data = EmptyStore.data
    /\ tileKeys = EmptyStore.tileKeys
    /\ loadingPromises = EmptyStore.loading
    /\ requestedLod = EmptyStore.requested
    /\ queue = <<>>
    /\ active = <<>>
    /\ idleWorkers = <<>>
    /\ idCounter = 0
    /\ terminated = FALSE
    /\ settled = <<>>
    /\ imageLodCache = [i \in Images |-> 0]
    /\ visibleImagesRef = <<>>
    /\ needsRebuild = FALSE
    /\ renderedSet = {}
    /\ instances = <<>>
    /\ last = [op |-> "init"]

NextStacked == StackedFrameTick \/ StackedWorkerDone \/ StackedWorkerError \/ StackedContinue

SpecStacked == InitStacked /\ [][NextStacked]_vars

(***************************************************************************)
(* Properties                                                              *)
(***************************************************************************)
FreeSlots == GetTotalSlots - GetUsedSlotCount(Alloc)
TileKeysOf(p) == IF p \in DOMAIN tileKeys THEN tileKeys[p] ELSE <<>>
TotalTileKeys == SumSeq([i \in 1..Len(FlatData(data)) |-> Len(TileKeysOf(FlatData(data)[i]))])
OwnedKeys == UNION {Range(TileKeysOf(p)) : p \in CachedPairs(Store)}

\* C1: under any interleaving of frames, completions (complete or partial),
\* cancellations and the coordinator's evictStale calls, the allocated tile keys
\* are exactly the tile keys of the cached entries, each owned by one entry and
\* listed once, so the used slot count is the total number of tile keys of the
\* cached entries; and with no load in flight an evictStale with an empty
\* rendered set and target = total slots would leave no slot used.
C1_SlotsOwnedByCache ==
    /\ DOMAIN usedSlots = OwnedKeys
    /\ \A p \in CachedPairs(Store) :
          /\ Cardinality(Range(TileKeysOf(p))) = Len(TileKeysOf(p))
          /\ \A k \in Range(TileKeysOf(p)) : <<k[1], k[2]>> = p
    /\ GetUsedSlotCount(Alloc) = TotalTileKeys
    /\ loadingPromises = {} =>
          \A V \in SUBSET Images :
              GetUsedSlotCount(EvictStale(Store, Alloc, {}, SetToSeq(V),
                                          GetTotalSlots).alloc) = 0

\* a partial load has just been rolled back while other entries stay cached,
\* and no load is in flight
C1_Witness ==
    /\ last.op = "continue" /\ last.outcome = "done" /\ ~last.complete
    /\ GetUsedSlotCount(Alloc) > 0
    /\ loadingPromises = {}

\* C2: after any sequence of allocate and free, no two keys share a slot, the
\* per-layer used index sets are exactly the slots of the mapped keys, and
\* getUsedCount() is the number of mapped keys, at most getTotalSlots().
C2_AllocatorConsistent ==
    /\ \A k1, k2 \in DOMAIN usedSlots : k1 # k2 => usedSlots[k1] # usedSlots[k2]
    /\ \A l \in Layers :
          layerSlots[l] = {SlotIndex(usedSlots[k]) :
                              k \in {x \in DOMAIN usedSlots : usedSlots[x].layer = l}}
    /\ \A k \in DOMAIN usedSlots :
          /\ usedSlots[k].layer \in Layers
          /\ usedSlots[k].slotX \in 0..(TilesPerRow - 1)
          /\ usedSlots[k].slotY \in 0..(TilesPerRow - 1)
    /\ GetUsedCount(Alloc) = Cardinality(DOMAIN usedSlots)
    /\ GetUsedCount(Alloc) <= GetTotalSlots

\* the allocator has just been refilled through a slot that a free gave back
C2_Witness ==
    /\ last.op = "allocate" /\ ~last.had /\ last.slot # NoSlot
    /\ GetUsedCount(Alloc) = GetTotalSlots
    /\ SlotIndex(last.slot) < TilesPerLayer - 1

\* C3: between the coordinator's operations every cached entry has as many
\* instances as tile keys, and every one of its tile keys is allocated.
C3_EntriesBacked ==
    \A p \in CachedPairs(Store) :
        /\ p \in DOMAIN tileKeys
        /\ Len(Get(Store, p[1], p[2])) = Len(tileKeys[p])
        /\ \A k \in Range(tileKeys[p]) : AllocHas(Alloc, k)

\* a frame has just evicted an entry and a multi-tile entry is cached
C3_Witness ==
    /\ last.op = "frame" /\ last.evicted # <<>>
    /\ \E p \in CachedPairs(Store) : Len(TileKeysOf(p)) > 1

\* the state after a step, as a store and an allocator value
StoreAfter == [data |-> data', tileKeys |-> tileKeys',
               loading |-> loadingPromises', requested |-> requestedLod']
AllocAfter == [ls |-> layerSlots', us |-> usedSlots']

\* of the last evictStale call: the pairs that were cached at the call, the ones
\* it could evict, the ones it evicted, and a pair's place in the enumeration
EvictedPairs == Range(last.evicted)
EligiblePairs == {p \in Range(last.order) : p \notin last.rendered /\ p \notin loadingPromises}
OrderIndex(p) == CHOOSE i \in 1..Len(last.order) : last.order[i] = p
\* the class of a pair as the claim words it: 0 off-screen and not the image's
\* requested LOD, 1 off-screen at the requested LOD, 2 on-screen
EvictClass(p) ==
    IF p[1] \in Range(last.visible) THEN 2
    ELSE IF requestedLod[p[1]] = p[2] THEN 1 ELSE 0
EvictsBefore(p, q) ==
    \/ EvictClass(p) < EvictClass(q)
    \/ EvictClass(p) = EvictClass(q) /\ OrderIndex(p) < OrderIndex(q)

\* C4: whatever the target, evictStale keeps every cached entry that is in the
\* rendered set passed to it or has a load in flight: the entry, its instances
\* and its tile key list stay, and each of its tile keys stays allocated in its slot.
C4_ProtectedSurvive ==
    [][last'.op = "evictStale" =>
          \A p \in CachedPairs(Store) :
              (p \in last'.rendered \/ p \in loadingPromises) =>
                  /\ Has(StoreAfter, p[1], p[2])
                  /\ Get(StoreAfter, p[1], p[2]) = Get(Store, p[1], p[2])
                  /\ p \in DOMAIN tileKeys'
                  /\ tileKeys'[p] = tileKeys[p]
                  /\ \A k \in Range(tileKeys[p]) :
                        /\ AllocHas(AllocAfter, k)
                        /\ usedSlots'[k] = usedSlots[k]]_vars

\* an eviction that fell short of its target has left a rendered entry and a
\* loading entry cached
C4_Witness ==
    /\ last.op = "evictStale" /\ last.evicted # <<>>
    /\ FreeSlots < last.target
    /\ \E p, q \in CachedPairs(Store) :
          p # q /\ p \in last.rendered /\ q \in loadingPromises /\ q \notin last.rendered

\* C5: evictStale evicts in ascending class, in enumeration order within a
\* class: the evicted pairs were eligible and are gone, they were evicted in
\* that order, and no eligible pair that survives comes before an evicted one.
C5_EvictionOrder ==
    last.op = "evictStale" =>
        /\ EvictedPairs \subseteq EligiblePairs
        /\ EvictedPairs \cap CachedPairs(Store) = {}
        /\ CachedPairs(Store) = Range(last.order) \ EvictedPairs
        /\ \A i, j \in 1..Len(last.evicted) :
              i < j => EvictsBefore(last.evicted[i], last.evicted[j])
        /\ \A e \in EvictedPairs : \A s \in EligiblePairs \ EvictedPairs :
              EvictsBefore(e, s)

\* the sort decided: an evicted pair of a lower class was enumerated after an
\* eligible survivor, and a second evicted pair shares the class of a survivor
C5_Witness ==
    /\ last.op = "evictStale"
    /\ \E e \in EvictedPairs : \E s \in EligiblePairs \ EvictedPairs :
          EvictClass(e) < EvictClass(s) /\ OrderIndex(s) < OrderIndex(e)
    /\ \E e \in EvictedPairs : \E s \in EligiblePairs \ EvictedPairs :
          EvictClass(e) = EvictClass(s)

\* C6: if a cached entry that was neither rendered nor loading existed at the
\* call, the free slot count after evictStale is larger than before it or is
\* at least the target.
C6_EvictionProgress ==
    last.op = "evictStale" =>
        (EligiblePairs # {} => FreeSlots > last.freeBefore \/ FreeSlots >= last.target)

\* an eviction has freed slots without reaching its target, protected entries remaining
C6_Witness ==
    /\ last.op = "evictStale" /\ EligiblePairs # {}
    /\ FreeSlots > last.freeBefore /\ FreeSlots < last.target
    /\ CachedPairs(Store) # {}

\* C7: evictStale evicts nothing when the free slot count at the call is at
\* least the target, and stops at the target: the free slot count right before
\* its last eviction was below the target.
C7_StopsAtTarget ==
    last.op = "evictStale" =>
        /\ last.freeBefore >= last.target =>
              /\ last.evicted = <<>>
              /\ FreeSlots = last.freeBefore
              /\ FlatData(data) = last.order
        /\ last.evicted # <<>> => last.freeAt[Len(last.freeAt)] < last.target

\* an eviction has stopped at its target with eligible entries left over
C7_Witness ==
    /\ last.op = "evictStale" /\ last.evicted # <<>>
    /\ FreeSlots >= last.target
    /\ EligiblePairs \ EvictedPairs # {}

\* the step is the continuation of a load whose decode arrived ('done') while
\* processTiles could not give every tile a slot
PartialCompletion == last'.op = "continue" /\ last'.outcome = "done" /\ ~last'.complete
\* what every partial completion does to the atlas and the store: no tile key of
\* the pair stays allocated, the allocator is as before the attempt, the pair is
\* not stored
PartialRolledBack ==
    /\ \A k \in DOMAIN usedSlots' : <<k[1], k[2]>> # <<last'.imageIndex, last'.lodLevel>>
    /\ usedSlots' = usedSlots /\ layerSlots' = layerSlots
    /\ GetUsedSlotCount(AllocAfter) = GetUsedSlotCount(Alloc)
    /\ ~Has(StoreAfter, last'.imageIndex, last'.lodLevel)
    /\ data' = data /\ tileKeys' = tileKeys

\* C8 as stated: a partial completion frees every tile key the attempt
\* allocated, does not store the pair, restores the used slot count, and sets
\* the rebuild flag.
C8_AsStated ==
    [][PartialCompletion => PartialRolledBack /\ needsRebuild']_vars

\* C8, amended: a partial completion frees every tile key the attempt
\* allocated, does not store the pair and restores the used slot count; it sets
\* the rebuild flag when the pair's LOD is still at least the image's requested
\* LOD at completion, and leaves the flag as it was otherwise.
C8_PartialRollback ==
    [][PartialCompletion =>
          /\ PartialRolledBack
          /\ ~last'.late => needsRebuild'
          /\ last'.late => needsRebuild' = needsRebuild]_vars

\* a still wanted load has just completed partially into a partly used atlas
C8_Witness ==
    /\ last.op = "continue" /\ last.outcome = "done" /\ ~last.complete /\ ~last.late
    /\ needsRebuild
    /\ GetUsedSlotCount(Alloc) > 0 /\ GetUsedSlotCount(Alloc) < GetTotalSlots

\* C9: at the end of every frame every pair of the rendered set is a cached
\* entry and every image of the rendered set is in that frame's visible set.
C9_RenderedCachedVisible ==
    last.op = "frame" =>
        /\ renderedSet \subseteq CachedPairs(Store)
        /\ \A p \in renderedSet : p[1] \in Range(visibleImagesRef)

\* a frame that evicted an entry ends with a non-empty rendered set
C9_Witness ==
    /\ last.op = "frame" /\ last.evicted # <<>>
    /\ renderedSet # {}

\* C10: between the coordinator's operations no pair is both marked as loading
\* and cached.
C10_LoadingNotCached ==
    loadingPromises \cap CachedPairs(Store) = {}

\* a load has just been stored while another pair is still loading
C10_Witness ==
    /\ last.op = "continue" /\ last.outcome = "done" /\ last.complete
    /\ <<last.imageIndex, last.lodLevel>> \in CachedPairs(Store)
    /\ loadingPromises # {}

\* the (image, lod) pairs of the tasks the pool holds, queued and dispatched
QueuedPairs == [i \in 1..Len(queue) |-> <<queue[i].imageIndex, queue[i].lodLevel>>]
ActiveIds == DOMAIN active
ActivePair(id) == <<active[id].imageIndex, active[id].lodLevel>>

\* C11: across frames, cancellations and completions the pool never holds two
\* tasks, queued or dispatched, for the same (image, lod).
C11_OneLoadPerPair ==
    /\ \A i, j \in 1..Len(queue) : i # j => QueuedPairs[i] # QueuedPairs[j]
    /\ \A a, b \in ActiveIds : a # b => ActivePair(a) # ActivePair(b)
    /\ \A a \in ActiveIds : ActivePair(a) \notin Range(QueuedPairs)

\* every worker is busy and a further task waits in the queue, each task for
\* a pair that is marked as loading
C11_Witness ==
    /\ Len(queue) > 0 /\ idleWorkers = <<>>
    /\ Cardinality(ActiveIds) = PoolSize
    /\ Range(QueuedPairs) \cup {ActivePair(a) : a \in ActiveIds} \subseteq loadingPromises

\* strictly higher and equal priorities, as numbers
PriorityHigher(p, q) == p.num * q.den > q.num * p.den
PriorityEqual(p, q) == p.num * q.den = q.num * p.den
\* the tasks waiting at a step: the queue and, for a loadImageTiles, the new task
WaitingTasks ==
    Range(queue) \cup
    (IF last'.op = "loadImageTiles"
     THEN {[id |-> last'.id, priority |-> last'.priority]} ELSE {})
DispatchedIds == (DOMAIN active') \ (DOMAIN active)
TaskPriority(id) == (CHOOSE t \in WaitingTasks : t.id = id).priority

\* C12: whenever the pool hands a task to a worker, no task left in the queue
\* has a strictly higher priority, and every task left in the queue with an
\* equal priority was submitted later; a task submitted while a worker is idle
\* is dispatched in the same call.
C12_DispatchOrder ==
    [][/\ \A d \in DispatchedIds :
             /\ \E t \in WaitingTasks : t.id = d
             /\ \A i \in 1..Len(queue') :
                   /\ ~PriorityHigher(queue'[i].priority, TaskPriority(d))
                   /\ PriorityEqual(queue'[i].priority, TaskPriority(d))
                         => queue'[i].id > d
       /\ (last'.op = "loadImageTiles" /\ idleWorkers # <<>>)
             => last'.id \in DOMAIN active']_vars

\* after a worker message the latest dispatched task has overtaken an earlier
\* task of lower priority, while a later task of a priority above that one
\* (so equal to the dispatched one's) still waits
C12_Witness ==
    /\ last.op = "message"
    /\ \E d \in DOMAIN active : \E i, j \in 1..Len(queue) :
          /\ d < queue[i].id /\ queue[j].id < d
          /\ \A e \in DOMAIN active : e <= d
          /\ queue[i].priority.num * queue[j].priority.den
                > queue[j].priority.num * queue[i].priority.den

\* the tasks of the queue that cancelPending(imageIndex, belowLod) is to reject
ToCancel == {t \in Range(queue) : t.imageIndex = last'.imageIndex
                                   /\ t.lodLevel < last'.belowLod}
QueueIndex(t) == CHOOSE i \in 1..Len(queue) : queue[i] = t

\* C13: cancelPending(image, belowLod) rejects exactly the queued tasks of the
\* image with a LOD strictly below belowLod; the dispatched tasks, the idle
\* workers, and the other queued tasks in their relative order stay.
C13_CancelExact ==
    [][last'.op = "cancelPending" =>
          /\ Range(last'.rejected) = {t.id : t \in ToCancel}
          /\ Len(last'.rejected) = Cardinality(ToCancel)
          /\ Range(queue') = Range(queue) \ ToCancel
          /\ Len(queue') = Len(queue) - Cardinality(ToCancel)
          /\ \A i, j \in 1..Len(queue') :
                i < j => QueueIndex(queue'[i]) < QueueIndex(queue'[j])
          /\ active' = active
          /\ idleWorkers' = idleWorkers]_vars

\* a cancelPending has rejected a task and kept two queued ones, one of them of
\* the same image, while a dispatched task of the image below belowLod runs on
C13_Witness ==
    /\ last.op = "cancelPending" /\ last.rejected # <<>>
    /\ Len(queue) >= 2
    /\ \E i \in 1..Len(queue) :
          queue[i].imageIndex = last.imageIndex /\ queue[i].lodLevel >= last.belowLod
    /\ \E i \in 1..Len(queue) : queue[i].imageIndex # last.imageIndex
    /\ \E a \in DOMAIN active :
          active[a].imageIndex = last.imageIndex /\ active[a].lodLevel < last.belowLod

\* the step is the continuation of a decode of (image, lod) that arrives when
\* the image's requested LOD is above lod
LateCompletion ==
    /\ last'.op = "continue" /\ last'.outcome = "done"
    /\ requestedLod[last'.imageIndex] # NoLod
    /\ last'.lodLevel < requestedLod[last'.imageIndex]

\* C14: a decode of (image, lod) that completes after the image's requested
\* LOD has risen above lod is stored if every tile got a slot, and the
\* completion leaves the rebuild flag as it was.
C14_LateStoredNoRebuild ==
    [][LateCompletion =>
          /\ FreeSlots >= Len(WorkerTiles(last'.imageIndex, last'.lodLevel)) =>
                /\ Has(StoreAfter, last'.imageIndex, last'.lodLevel)
                /\ Len(Get(StoreAfter, last'.imageIndex, last'.lodLevel))
                      = Len(WorkerTiles(last'.imageIndex, last'.lodLevel))
          /\ needsRebuild' = needsRebuild]_vars

\* a late decode has just been stored and the rebuild flag is not set
C14_Witness ==
    /\ last.op = "continue" /\ last.outcome = "done" /\ last.complete
    /\ last.lodLevel < requestedLod[last.imageIndex]
    /\ <<last.imageIndex, last.lodLevel>> \in CachedPairs(Store)
    /\ ~needsRebuild

\* the draw list that shows every visible image with a cached LOD at its best
\* available LOD for the frame's target LOD
RECURSIVE BestInstances(_)
BestInstances(visible) ==
    IF visible = <<>> THEN <<>>
    ELSE LET img == Head(visible)
             best == GetBestAvailableLod(Store, img, imageLodCache[img])
         IN (IF best < 0 THEN <<>> ELSE Get(Store, img, best))
            \o BestInstances(Tail(visible))
ShownAtBest ==
    /\ \A img \in Range(visibleImagesRef) :
          (\E p \in CachedPairs(Store) : p[1] = img) =>
              <<img, GetBestAvailableLod(Store, img, imageLodCache[img])>> \in renderedSet
    /\ instances = BestInstances(visibleImagesRef)

\* C15: at the end of every frame every visible image with a cached
\* LOD is in the rendered set and the draw list at its best available LOD for
\* its target LOD on the store contents of that frame.
C15_AsStated == last.op = "frame" => ShownAtBest

\* the pairs of the tasks the pool holds after the step
PoolPairsAfter ==
    {<<queue'[i].imageIndex, queue'[i].lodLevel>> : i \in 1..Len(queue')}
    \cup {<<active'[id].imageIndex, active'[id].lodLevel>> : id \in DOMAIN active'}

\* C16: the continuation of a worker error for (image, lod) leaves the pair
\* uncached, allocates no slot for it and clears its loading mark; and the
\* frame that follows, if it sees the image with the same target LOD, submits
\* a new load for the pair.
C16_ErrorRetried ==
    [][/\ (last'.op = "continue" /\ last'.outcome = "error") =>
             /\ ~Has(StoreAfter, last'.imageIndex, last'.lodLevel)
             /\ \A k \in DOMAIN usedSlots' :
                   <<k[1], k[2]>> # <<last'.imageIndex, last'.lodLevel>>
             /\ usedSlots' = usedSlots /\ layerSlots' = layerSlots
             /\ <<last'.imageIndex, last'.lodLevel>> \notin loadingPromises'
       /\ (/\ last.op = "continue" /\ last.outcome = "error"
           /\ last'.op = "frame"
           /\ last.imageIndex \in Range(visibleImagesRef')
           /\ imageLodCache'[last.imageIndex] = last.lodLevel) =>
             /\ <<last.imageIndex, last.lodLevel>> \in loadingPromises'
             /\ <<last.imageIndex, last.lodLevel>> \in PoolPairsAfter
             /\ idCounter' > idCounter]_vars

\* a worker error has just been processed for a pair that is still the target
\* LOD of a visible image, other entries being cached, and a further task can
\* be submitted
C16_Witness ==
    /\ last.op = "continue" /\ last.outcome = "error"
    /\ last.imageIndex \in Range(visibleImagesRef)
    /\ imageLodCache[last.imageIndex] = last.lodLevel
    /\ <<last.imageIndex, last.lodLevel>> \notin loadingPromises
    /\ CachedPairs(Store) # {}
    /\ idCounter < MaxTasks

\* the LODs of the queried image that are cached, at or below the target and
\* above it up to maxLod
CachedLods == {p[2] : p \in {q \in CachedPairs(Store) : q[1] = last.imageIndex}}
LodsDown == {l \in CachedLods : l <= last.targetLod}
LodsUp == {l \in CachedLods : l > last.targetLod /\ l <= MAX_LOD}

\* C17: getBestAvailableLod(image, target) is the greatest cached LOD at or
\* below target if there is one, else the least cached LOD above target and up
\* to maxLod, else -1; a result >= 0 is a cached LOD of the image.
C17_BestAvailable ==
    last.op = "getBestAvailableLod" =>
        /\ LodsDown # {} =>
              /\ last.result \in LodsDown
              /\ \A l \in LodsDown : l <= last.result
        /\ (LodsDown = {} /\ LodsUp # {}) =>
              /\ last.result \in LodsUp
              /\ \A l \in LodsUp : last.result <= l
        /\ (LodsDown = {} /\ LodsUp = {}) => last.result = 0 - 1
        /\ last.result >= 0 => Has(Store, last.imageIndex, last.result)

\* a query has preferred the nearer of two coarser LODs over a cached finer one
C17_Witness ==
    /\ last.op = "getBestAvailableLod"
    /\ last.result >= 0 /\ last.result < last.targetLod
    /\ \E l \in LodsDown : l < last.result
    /\ LodsUp # {}

\* C18 as stated: for every allocator state and every key k, free(k) right
\* after allocate(k) leaves the used count at its value before the allocate.
C18_AsStated ==
    [][(last.op = "allocate" /\ last'.op = "free" /\ last'.key = last.key) =>
          GetUsedCount(AllocAfter) = last.usedBefore]_vars

\* C18: for every allocator state and every key k that is not allocated,
\* free(k) right after allocate(k) leaves the used count at its value before
\* the allocate, whether the allocate found a slot or not.
C18_NewKeyRoundTrip ==
    [][(last.op = "allocate" /\ ~last.had /\ last'.op = "free" /\ last'.key = last.key) =>
          GetUsedCount(AllocAfter) = last.usedBefore]_vars

\* a key that was new has been allocated among other keys and freed at once
C18_Witness ==
    /\ last.op = "free" /\ last.afterNew /\ last.had
    /\ GetUsedCount(Alloc) > 0
    /\ GetUsedCount(Alloc) = last.usedBefore - 1

\* the positions <<layer, index>> that no key holds
FreePositions ==
    ((DOMAIN layerSlots) \X (0..(TilesPerLayer - 1)))
        \ {<<usedSlots[k].layer, usedSlots[k].slotY * TilesPerRow + usedSlots[k].slotX>> :
              k \in DOMAIN usedSlots}

\* C19: allocate(k) of a key that is not allocated returns, when a position is
\* free, the free position of the lowest layer and of the lowest index i in
\* that layer, as slotX = i mod tilesPerRow and slotY = i div tilesPerRow.
C19_LowestFreeFirst ==
    [][(last'.op = "allocate" /\ ~last'.had /\ FreePositions # {}) =>
          \E p \in FreePositions :
             /\ \A q \in FreePositions : p[1] < q[1] \/ (p[1] = q[1] /\ p[2] <= q[2])
             /\ last'.slot = [layer |-> p[1], slotX |-> p[2] % TilesPerRow,
                              slotY |-> p[2] \div TilesPerRow]]_vars

\* a new key has taken the freed position (layer 0, slotX 1, slotY 0) while the
\* rest of layer 0 and a slot of layer 1 are occupied
C19_Witness ==
    /\ last.op = "allocate" /\ ~last.had
    /\ last.slot = [layer |-> 0, slotX |-> 1, slotY |-> 0]
    /\ Cardinality(layerSlots[0]) = TilesPerLayer
    /\ \E l \in DOMAIN layerSlots : l > 0 /\ layerSlots[l] # {}

\* C20: allocate(k) of a key that is allocated returns the slot the key holds
\* and changes neither the used count nor the slot of any key.
C20_AllocateIdempotent ==
    [][(last'.op = "allocate" /\ last'.key \in DOMAIN usedSlots) =>
          /\ last'.slot = usedSlots[last'.key]
          /\ usedSlots' = usedSlots
          /\ layerSlots' = layerSlots
          /\ GetUsedCount(AllocAfter) = GetUsedCount(Alloc)]_vars

\* an allocated key has been allocated again while other slots were free
C20_Witness ==
    /\ last.op = "allocate" /\ last.had
    /\ GetUsedCount(Alloc) >= 2 /\ GetUsedCount(Alloc) < GetTotalSlots

\* C21: allocate(k) of a key that is not allocated returns null exactly when
\* no position of any layer is free; a failed allocate leaves the allocator as
\* it was, full and without k; an allocate of a new key right after a free that
\* released a slot succeeds.
C21_FullIffNull ==
    [][/\ (last'.op = "allocate" /\ ~last'.had) =>
             /\ (last'.slot = NoSlot) <=> (FreePositions = {})
             /\ last'.slot = NoSlot =>
                   /\ usedSlots' = usedSlots /\ layerSlots' = layerSlots
                   /\ GetUsedCount(AllocAfter) = GetTotalSlots
                   /\ last'.key \notin DOMAIN usedSlots'
       /\ (last.op = "free" /\ last.had /\ last'.op = "allocate" /\ ~last'.had) =>
             /\ last'.slot # NoSlot
             /\ last'.key \in DOMAIN usedSlots'
             /\ usedSlots'[last'.key] = last'.slot]_vars

\* an allocate of a new key has failed on the full allocator
C21_Witness ==
    /\ last.op = "allocate" /\ ~last.had /\ last.slot = NoSlot
    /\ GetUsedCount(Alloc) = GetTotalSlots
    /\ Cardinality(DOMAIN usedSlots) = GetTotalSlots
    /\ last.key \notin DOMAIN usedSlots

\* the ids of the queued tasks, in queue order
QueuedIds == [i \in 1..Len(queue) |-> queue[i].id]

\* C22: dispose() rejects every task of the queue with the 'disposed' error and
\* leaves the queue empty, the dispatched tasks are left alone, and once the
\* pool is disposed no task that was in the queue becomes a dispatched task.
C22_DisposeRejectsQueued ==
    [][/\ last'.op = "dispose" =>
             /\ last'.rejected = QueuedIds
             /\ last'.error = "disposed"
             /\ queue' = <<>>
             /\ active' = active
       /\ terminated' =>
             \A id \in DOMAIN active' \ DOMAIN active :
                 \A i \in 1..Len(queue) : queue[i].id # id]_vars

\* dispose has rejected two queued tasks while every worker held a task
C22_Witness ==
    /\ last.op = "dispose" /\ Len(last.rejected) >= 2
    /\ queue = <<>> /\ idleWorkers = <<>> /\ DOMAIN active # {}

\* the slot of an allocated key holds the pixels of that key's bitmap
HasPixels(k) ==
    LET pos == <<usedSlots[k].layer, usedSlots[k].slotX, usedSlots[k].slotY>>
    IN pos \in DOMAIN atlasPixels /\ atlasPixels[pos] = k

\* C23: uploadTile called before the atlas texture exists still allocates and
\* returns the slot, and once the texture exists every key that holds a slot
\* eventually has its tile's pixels in that slot, unless it is freed.
C23_AsStated ==
    \A k \in AtlasKeys :
        (webglTexture /\ k \in DOMAIN usedSlots)
            ~> (k \notin DOMAIN usedSlots \/ HasPixels(k))

\* the fraction d is at least the integer z, and below it
DensityAtLeast(d, z) == d.num >= z * d.den
DensityBelow(d, z) == d.num < z * d.den

\* C24: for TILE_SIZE 256, BASE_WORLD_SIZE 4 and MAX_LOD 4, the tile density
\* of selectLod(zoom) is at least zoom for every zoom up to the density of
\* MAX_LOD, the density of the LOD below a result n > 0 is below zoom, and
\* 64, 65, 128, 129, 1024, 5000 give 0, 1, 1, 2, 4, 4.
C24_LowestSufficientLod ==
    (last.op = "selectLod" /\ last.maxLod = MAX_LOD) =>
        /\ DensityAtLeast(GetTilePixelDensity(MAX_LOD, TILE_SIZE, BASE_WORLD_SIZE), last.zoom) =>
              DensityAtLeast(GetTilePixelDensity(last.result, TILE_SIZE, BASE_WORLD_SIZE), last.zoom)
        /\ last.result > 0 =>
              DensityBelow(GetTilePixelDensity(last.result - 1, TILE_SIZE, BASE_WORLD_SIZE), last.zoom)
        /\ last.result \in 0..MAX_LOD
        /\ last.zoom = 64 => last.result = 0
        /\ last.zoom = 65 => last.result = 1
        /\ last.zoom = 128 => last.result = 1
        /\ last.zoom = 129 => last.result = 2
        /\ last.zoom = 1024 => last.result = 4
        /\ last.zoom = 5000 => last.result = 4

\* a demand equal to the density of LOD 3 has selected LOD 3
C24_Witness ==
    /\ last.op = "selectLod" /\ last.maxLod = MAX_LOD
    /\ last.zoom = 512 /\ last.result = 3

\* C25: for zoomA <= zoomB, zero and negative values included, and the same
\* maxLod, selectLod(zoomA) <= selectLod(zoomB); every result is in 0..maxLod
\* and the result of a demand of at most zero is 0.
C25_Monotone ==
    last.op = "selectLodPair" =>
        /\ last.zoomA <= last.zoomB => last.resultA <= last.resultB
        /\ last.resultA \in 0..last.maxLod /\ last.resultB \in 0..last.maxLod
        /\ last.zoomA <= 0 => last.resultA = 0

\* a negative demand and a demand beyond the cap have given 0 and maxLod
C25_Witness ==
    /\ last.op = "selectLodPair" /\ last.maxLod = 2
    /\ last.zoomA < 0 /\ last.resultA = 0
    /\ last.zoomB > 1024 /\ last.resultB = 2

\* C26: selectImageLod(zoom, ..., imagePixelSize, imageScale) is
\* selectLod(zoom * imageScale) when the size is undefined and the minimum of
\* that and m when it is defined, m being 0 for a size of at most TILE_SIZE and
\* the floor of log2(size / TILE_SIZE) otherwise; zoom 40, scale 10 and size
\* 1024 give 2.
C26_ImageLod ==
    last.op = "selectImageLod" =>
        LET demanded == SelectLod(last.zoom * last.imageScale, TILE_SIZE, BASE_WORLD_SIZE, MAX_LOD)
            p == last.imagePixelSize
        IN /\ p = NoSize => last.result = demanded
           /\ p # NoSize =>
                 \E m \in 0..(MAX_LOD + 2) :
                    /\ p <= TILE_SIZE => m = 0
                    /\ p > TILE_SIZE =>
                          (TILE_SIZE * Pow(2, m) <= p /\ p < TILE_SIZE * Pow(2, m + 1))
                    /\ last.result = Min(demanded, m)
           /\ (last.zoom = 40 /\ last.imageScale = 10 /\ p = 1024) => last.result = 2

\* the demand of LOD 3 of a tenfold image has been capped at 2 by its 1024 pixels
C26_Witness ==
    /\ last.op = "selectImageLod"
    /\ last.zoom = 40 /\ last.imageScale = 10 /\ last.imagePixelSize = 1024
    /\ last.result = 2

\* C27 as stated: the target LOD the frame computes for a visible image is
\* selectImageLod(zoom * devicePixelRatio, TILE_SIZE, BASE_WORLD_SIZE, MAX_LOD,
\* imageScale), and so its tile density is at least the physical screen
\* density whenever the density of MAX_LOD is.
C27_AsStated ==
    last.op = "targetLod" =>
        LET physical == last.zoom * last.pixelRatio * ImageScale(last.imageIndex)
        IN /\ last.result = SelectImageLod(last.zoom * last.pixelRatio, TILE_SIZE,
                                BASE_WORLD_SIZE, MAX_LOD, NoSize, ImageScale(last.imageIndex))
           /\ DensityAtLeast(GetTilePixelDensity(MAX_LOD, TILE_SIZE, BASE_WORLD_SIZE), physical) =>
                 DensityAtLeast(GetTilePixelDensity(last.result, TILE_SIZE, BASE_WORLD_SIZE), physical)

\* C28: getVisibleImages(camera) lists exactly the indices of the images whose
\* bounds meet the camera's rectangle, in strictly ascending order, and
\* isImageVisible(i, camera) is TRUE exactly for the listed indices, FALSE for
\* -1 and for the index one past the last image.
C28_VisibleConsistent ==
    last.op = "getVisibleImages" =>
        /\ \A j \in 1..(Len(last.visible) - 1) : last.visible[j] < last.visible[j + 1]
        /\ Range(last.visible) =
              {i \in 0..(IMAGE_COUNT - 1) :
                  LET b == PlaneBox(i)
                      c == CameraBox(last.camera)
                  IN ~(b.maxX < c.minX \/ b.minX > c.maxX \/ b.maxY < c.minY \/ b.minY > c.maxY)}
        /\ \A i \in (0 - 1)..IMAGE_COUNT : last.isVisible[i] <=> i \in Range(last.visible)
        /\ ~last.isVisible[0 - 1] /\ ~last.isVisible[IMAGE_COUNT]

\* a camera sees image 0 and at least two more images, and not all of them
C28_Witness ==
    /\ last.op = "getVisibleImages"
    /\ Len(last.visible) >= 3 /\ Len(last.visible) < IMAGE_COUNT
    /\ last.visible[1] = 0 /\ last.isVisible[0]

\* C30 as stated: for every LOD in 0..MAX_LOD and every image the estimate
\* min(4^lod, 64) of the frame is at least the number tilesX * tilesY of tiles
\* the worker produces for the image at that LOD.
C30_AsStated ==
    last.op = "estimate" =>
        /\ last.tiles = last.tilesX * last.tilesY
        /\ last.estimatedNeeded >= last.tiles

(***************************************************************************)
(* The coordinator with uploads that may raise: the views of the resting   *)
(* camera, worker errors, and the atlas texture created at some point      *)
(***************************************************************************)
NextRaise ==
    FrameTickRetry \/ WorkerDone \/ WorkerError \/ Continue \/ ContinueRaise \/ AtlasRealize

SpecRaise == Init /\ [][NextRaise]_vars

(***************************************************************************)
(* C29                                                                     *)
(***************************************************************************)
\* slots held by the cached entries evictStale may take: neither in the
\* rendered set nor loading
EvictableSlots ==
    SumSeq([k \in 1..Len(FlatData(data)) |->
               IF FlatData(data)[k] \notin renderedSet
                  /\ FlatData(data)[k] \notin loadingPromises
               THEN Len(TileKeysOf(FlatData(data)[k])) ELSE 0])

\* the load of image i at its target LOD of the resting view has just ended
\* partial, the evictable entries hold at least the slots the pair needs, and
\* one more task can be submitted
PartialAtRest(i) ==
    /\ last.op = "continue" /\ last.outcome = "done" /\ ~last.complete
    /\ last.imageIndex = i /\ last.lodLevel = RestLod(i)
    /\ AtRest /\ imageLodCache[i] = RestLod(i)
    /\ EvictableSlots >= Len(WorkerTiles(i, RestLod(i)))
    /\ idCounter < RetryTasks

C31_AsStated ==
    [][(last'.op = "continue"
        /\ ~Has(StoreAfter, last'.imageIndex, last'.lodLevel))
       => \A k \in DOMAIN usedSlots' :
             <<k[1], k[2]>> # <<last'.imageIndex, last'.lodLevel>>]_vars

\* the pairs of the tasks the step has submitted to the decoder pool
SubmittedPairs ==
    {<<queue'[i].imageIndex, queue'[i].lodLevel>> :
        i \in {k \in 1..Len(queue') : queue'[k].id >= idCounter}}
    \cup {<<active'[id].imageIndex, active'[id].lodLevel>> :
             id \in {k \in DOMAIN active' : k >= idCounter}}

\* C32: every frame starts a load of (image, target LOD) for every visible
\* image whose target LOD was neither cached nor loading when the frame began:
\* after the frame the pair is marked loading and a task for it, submitted by
\* this frame, is in the decoder pool, whatever zoom-in and zoom-out frames
\* came before.
C32_AsStated ==
    [][last'.op = "frame" =>
          \A i \in Range(visibleImagesRef') :
              NeedsLoad(Store, i, imageLodCache'[i]) =>
                  /\ <<i, imageLodCache'[i]>> \in loadingPromises'
                  /\ <<i, imageLodCache'[i]>> \in SubmittedPairs]_vars

\* C33 as stated: the requested LOD recorded for an image is the highest LOD
\* asked for: no operation, and in particular no setRequestedLod with a LOD
\* below the recorded one, lowers getRequestedLod(image).
C33_AsStated ==
    [][\A i \in Images : GetRequestedLod(StoreAfter, i) >= GetRequestedLod(Store, i)]_vars

\* C33 amended: the requested LOD recorded for an image is the most recent LOD
\* asked for: setRequestedLod(image, l) records l whatever the recorded value,
\* also when l is below it, leaves the other images' records alone, and no
\* other store operation changes a record.
C33_MostRecent ==
    [][IF last'.op = "setRequestedLod"
       THEN /\ GetRequestedLod(StoreAfter, last'.imageIndex) = last'.lodLevel
            /\ \A i \in Images \ {last'.imageIndex} : requestedLod'[i] = requestedLod[i]
       ELSE requestedLod' = requestedLod]_vars

\* a setRequestedLod has just lowered the record of an image that has cached entries
C33_Witness ==
    /\ last.op = "setRequestedLod"
    /\ last.lodLevel < last.previous
    /\ GetRequestedLod(Store, last.imageIndex) = last.lodLevel
    /\ \E p \in CachedPairs(Store) : p[1] = last.imageIndex

\* the class of a pair with the target LOD read through getRequestedLod, that
\* is with 0 for an image whose requested LOD was never set
ClassByGetRequested(p) ==
    IF p[1] \in Range(last.visible) THEN 2
    ELSE IF GetRequestedLod(Store, p[1]) = p[2] THEN 1 ELSE 0

\* the class of a pair with the target LOD read from the record itself: an
\* image whose requested LOD was never set has no target LOD
ClassByRecord(p) ==
    IF p[1] \in Range(last.visible) THEN 2
    ELSE IF requestedLod[p[1]] # NoLod /\ requestedLod[p[1]] = p[2] THEN 1 ELSE 0

\* C34 as stated: evictStale takes a cached (image, lod) for the image's target
\* LOD exactly when lod = getRequestedLod(image), 0 for an image never
\* requested: its evictions go by ascending class computed that way, so an
\* off-screen LOD-0 entry of a never-requested image (class 1) is evicted
\* after every class-0 candidate and not while one of them survives.
C34_AsStated ==
    last.op = "evictStale" =>
        /\ \A i, j \in 1..Len(last.evicted) :
              i < j => ClassByGetRequested(last.evicted[i]) <= ClassByGetRequested(last.evicted[j])
        /\ \A e \in EvictedPairs : \A s \in EligiblePairs \ EvictedPairs :
              ClassByGetRequested(e) <= ClassByGetRequested(s)

\* C34 amended: evictStale takes a cached (image, lod) for the image's target
\* LOD exactly when a requested LOD is recorded for the image and equals lod;
\* the default 0 is not applied, so every off-screen entry of an image never
\* requested, LOD 0 included, is class 0: the evictions go by ascending class
\* computed that way and no evicted pair is of a higher class than a
\* surviving candidate.
C34_TargetByRecord ==
    last.op = "evictStale" =>
        /\ \A i, j \in 1..Len(last.evicted) :
              i < j => ClassByRecord(last.evicted[i]) <= ClassByRecord(last.evicted[j])
        /\ \A e \in EvictedPairs : \A s \in EligiblePairs \ EvictedPairs :
              ClassByRecord(e) <= ClassByRecord(s)

\* the off-screen LOD-0 entry of an image never requested was evicted while an
\* off-screen entry at its image's recorded LOD, enumerated before it, survives
C34_Witness ==
    /\ last.op = "evictStale"
    /\ \E e \in EvictedPairs : \E s \in EligiblePairs \ EvictedPairs :
          /\ e[2] = 0 /\ requestedLod[e[1]] = NoLod /\ e[1] \notin Range(last.visible)
          /\ ClassByRecord(s) = 1
          /\ OrderIndex(s) < OrderIndex(e)

\* the step dispatched the queued task at position j
DispatchedNow(j) == queue[j].id \in DOMAIN active'

\* C35: with the priority lodLevel + 1/(1 + dist) a queued load of a higher LOD
\* outranks a queued load of a lower LOD whatever the two distances, distance 0
\* included: the queue never holds a lower LOD ahead of a higher one, and a
\* step that dispatches a queued task has dispatched every queued task of a
\* higher LOD.
C35_HigherLodFirst ==
    [][/\ \A i, j \in 1..Len(queue') :
             i < j => queue'[i].lodLevel >= queue'[j].lodLevel
       /\ \A i, j \in 1..Len(queue) :
             (queue[i].lodLevel > queue[j].lodLevel /\ DispatchedNow(j)) => DispatchedNow(i)]_vars

\* a load submitted with the camera far away waits ahead of an older load of
\* the next lower LOD that was submitted at distance 0 (fractional term 1)
C35_Witness ==
    \E i, j \in 1..Len(queue) :
        /\ i < j
        /\ queue[i].lodLevel = queue[j].lodLevel + 1
        /\ queue[i].id > queue[j].id
        /\ queue[j].priority.num = (queue[j].lodLevel + 1) * queue[j].priority.den
        /\ queue[i].priority.den > 100

\* C36: the evictStale call of a frame never evicts the cached entry at the
\* current target LOD of an image in the visible set passed to it, also when
\* the entry was stored after the last rebuild and is not in the rendered set.
C36_AsStated ==
    [][last'.op = "frame" =>
          \A k \in 1..Len(last'.evicted) :
              LET p == last'.evicted[k]
              IN ~(p[1] \in Range(visibleImagesRef') /\ imageLodCache'[p[1]] = p[2])]_vars

\* the instance still samples the slot it was built for
InstanceBacked(inst) ==
    LET p == <<inst.tile[1], inst.tile[2]>>
    IN /\ Has(Store, p[1], p[2])
       /\ inst \in Range(Get(Store, p[1], p[2]))
       /\ p \in DOMAIN tileKeys
       /\ inst.tile \in Range(tileKeys[p])
       /\ AllocHas(Alloc, inst.tile)
       /\ usedSlots[inst.tile] = inst.slot
       /\ \A k \in DOMAIN usedSlots : usedSlots[k] = inst.slot => k = inst.tile

\* C37: at the end of every frame every instance of the draw list references
\* a slot that is allocated to its own tile key and to no other, and that key
\* is a tile key of a cached entry of the image and LOD the instance was
\* built for: no drawn instance samples a slot that an eviction, a rollback
\* or a later upload has freed or reassigned.
C37_DrawnSlotsLive ==
    last.op = "frame" => \A k \in 1..Len(instances) : InstanceBacked(instances[k])

\* a frame has evicted an entry without rebuilding the draw list, which is not empty
C37_Witness ==
    /\ last.op = "frame" /\ last.evicted # <<>> /\ ~last.rebuilt
    /\ instances # <<>>

\* the pairs a frame can ask for
LoadPairs == Images \X (0..2)

\* a task of the pair is queued or dispatched, or its future has settled and
\* its continuation has not run yet
TaskInFlight(p) ==
    \/ \E i \in 1..Len(queue) : <<queue[i].imageIndex, queue[i].lodLevel>> = p
    \/ \E id \in DOMAIN active : <<active[id].imageIndex, active[id].lodLevel>> = p
    \/ \E i \in 1..Len(settled) : <<settled[i].imageIndex, settled[i].lodLevel>> = p

\* C38: every pair marked loading is eventually unmarked, whatever the
\* outcome of its load: the continuation that runs once the future has settled
\* leaves the pair unmarked, no pair is marked loading without a task of it
\* in the pool or a settled future waiting, and a marked pair does not stay
\* marked for ever.
C38_LoadingCleared ==
    /\ [][last'.op = "continue" =>
             <<last'.imageIndex, last'.lodLevel>> \notin loadingPromises']_vars
    /\ [](\A p \in loadingPromises : TaskInFlight(p))
    /\ \A p \in LoadPairs : (p \in loadingPromises) ~> (p \notin loadingPromises)

\* the continuation of a cancelled load has just unmarked its pair while
\* another pair is still marked
C38_Witness ==
    /\ last.op = "continue" /\ last.outcome = "cancelled"
    /\ <<last.imageIndex, last.lodLevel>> \notin loadingPromises
    /\ loadingPromises # {}

\* the future of task id is pending: the task is queued or dispatched
FuturePending(id) ==
    \/ \E i \in 1..Len(queue) : queue[i].id = id
    \/ id \in DOMAIN active

\* C39: every future returned by loadImageTiles eventually settles: on its
\* worker's answer, on a matching cancelPending, and on dispose(), after which
\* no future stays pending, the futures of the tasks dispatched before the
\* dispose included.
C39_AsStated ==
    \A id \in 0..(MaxPoolTasks - 1) : FuturePending(id) ~> ~FuturePending(id)

\* the workers that hold a dispatched task after the step
BusyWorkersAfter == {active'[id].workerIdx : id \in DOMAIN active'}

\* C40: after every loadImageTiles, cancelPending and worker answer each
\* worker of the pool is either idle, once, or assigned exactly one dispatched
\* task, the dispatched tasks and the idle workers add up to the pool size,
\* which no operation changes, and the queue is non-empty only when no worker
\* is idle.
C40_WorkersAccounted ==
    [][LET n == Len(idleWorkers') + Cardinality(DOMAIN active')
       IN /\ n = Len(idleWorkers) + Cardinality(DOMAIN active)
          /\ n \in 1..PoolSize
          /\ \A i, j \in 1..Len(idleWorkers') :
                i # j => idleWorkers'[i] # idleWorkers'[j]
          /\ \A a, b \in DOMAIN active' :
                a # b => active'[a].workerIdx # active'[b].workerIdx
          /\ Range(idleWorkers') \cap BusyWorkersAfter = {}
          /\ Range(idleWorkers') \cup BusyWorkersAfter = 0..(n - 1)
          /\ queue' # <<>> => idleWorkers' = <<>>]_vars

\* a worker's answer has just sent the next queued task to that worker: every
\* worker of a two-worker pool is busy and a task still waits
C40_Witness ==
    /\ last.op = "message"
    /\ queue # <<>> /\ idleWorkers = <<>>
    /\ Cardinality(DOMAIN active) = PoolSize

====
